---- MODULE Spec2Model ----
(***************************************************************************)
(* Tulu translation bot, v5.2 variant (src/cloud-bot.js lines 1029-2370):  *)
(* the five-tier resolution engine translateToTulu, the taught-dictionary  *)
(* cache, the API cache, the per-user teaching/correction state and the    *)
(* two registered 'message' handlers.                                      *)
(*                                                                         *)
(* Text is a sequence of Unicode code points, so that toLowerCase, trim,   *)
(* the digit test and the Kannada-range test are computed, not assumed.    *)
(* Time is Date.now() counted in minutes.                                  *)
(*                                                                         *)
(* A handler is a JavaScript async function: it runs without interruption  *)
(* up to an await.  A handler whose continuation is already queued as a    *)
(* microtask (an await on a value that needs no I/O) is "urgent": no       *)
(* delivery, timer or I/O completion runs before it.  A handler waiting    *)
(* for the store, the translation API or Telegram can be overtaken by any  *)
(* other handler.                                                          *)
(***************************************************************************)
EXTENDS Integers, Sequences, FiniteSets, TLC

\* ------------------------------------------------------------------ bounds
\* number of distinct inbound messages
MaxMsgs == 2
\* number of deliveries (first deliveries and redeliveries) of messages
MaxDeliveries == 3
\* number of clock advances
MaxTicks == 2
\* number of handler bodies in flight at once
MaxInFlight == 1

\* ------------------------------------------------------- program constants
\* minutes; const CACHE_DURATION = 5 * 60 * 1000
CACHE_DURATION == 5
\* minutes; the teaching request's advertised lifetime, 10 * 60 * 1000
STATE_TIMEOUT == 10

\* --------------------------------------------------------------------- text
None == <<>>
Some(x) == <<x>>

\* String.prototype.toLowerCase on one code point (ASCII letters)
LowerChar(c) == IF c \in 65..90 THEN c + 32 ELSE c

ToLowerCase(s) == [i \in 1..Len(s) |-> LowerChar(s[i])]

\* white space stripped by String.prototype.trim: tab, line feed, space
IsSpace(c) == c \in {9, 10, 32}

RECURSIVE TrimLeft(_)
TrimLeft(s) == IF s # <<>> /\ IsSpace(Head(s)) THEN TrimLeft(Tail(s)) ELSE s

RECURSIVE TrimRight(_)
TrimRight(s) ==
    IF s # <<>> /\ IsSpace(s[Len(s)]) THEN TrimRight(SubSeq(s, 1, Len(s) - 1)) ELSE s

Trim(s) == TrimRight(TrimLeft(s))

\* text.toLowerCase().trim()
NormalizeMut(text) == Trim(text)

Normalize(text) == Trim(ToLowerCase(text))

\* /[ಀ-೿]/.test(s)
HasKannada(s) == \E i \in 1..Len(s) : s[i] \in 3200..3327

\* /^\d+$/.test(s)
IsNumeric(s) == s # <<>> /\ \A i \in 1..Len(s) : s[i] \in 48..57

\* msg.text.startsWith('/')
IsCommand(s) == s # <<>> /\ s[1] = 47

\* s.startsWith(p)
HasPrefix(s, p) == Len(s) >= Len(p) /\ SubSeq(s, 1, Len(p)) = p

\* p occurs somewhere in s (an unanchored regular expression of literal p)
Contains(s, p) ==
    \E i \in 1..(Len(s) - Len(p) + 1) : SubSeq(s, i, i + Len(p) - 1) = p

\* "/skip", "/cancel", "/correct"
P_skip == <<47, 115, 107, 105, 112>>
P_cancel == <<47, 99, 97, 110, 99, 101, 108>>
P_correct == <<47, 99, 111, 114, 114, 101, 99, 116>>

\* bot.onText(/\/skip|\/cancel/, ...): the pattern is not anchored
MatchesSkip(text) == Contains(text, P_skip) \/ Contains(text, P_cancel)

\* bot.onText(/^\/correct(?:\s+(.+)|$)/, ...): no match (None), a match
\* without a word (Some(None)), or a match with match[1] (Some(Some(word)));
\* \s+ is greedy and gives a character back when nothing else is left for .+
CorrectMatch(text) ==
    IF ~HasPrefix(text, P_correct) THEN None
    ELSE LET rest == SubSeq(text, Len(P_correct) + 1, Len(text))
             word == TrimLeft(rest)
         IN  IF rest = <<>> THEN Some(None)
             ELSE IF ~IsSpace(rest[1]) THEN None
             ELSE IF word # <<>> THEN Some(Some(word))
             ELSE IF Len(rest) >= 2 THEN Some(Some(<<rest[Len(rest)]>>))
             ELSE None


\* ------------------------------------------------------------- dictionaries
\* "constructor", "__proto__": the all-lowercase property names that every
\* plain JavaScript object inherits from Object.prototype
T_ctor == <<99, 111, 110, 115, 116, 114, 117, 99, 116, 111, 114>>
T_proto == <<95, 95, 112, 114, 111, 116, 111, 95, 95>>
InheritedKeys == {T_ctor, T_proto}

\* the value of an inherited property: an object, truthy and not a string
NotAString == <<-1>>

\* dict[key] on a JavaScript object used as a map (a function whose domain
\* is its own keys): the own entry, else the inherited property, else undefined
Get(dict, key) ==
    IF key \in DOMAIN dict THEN Some(dict[key])
    ELSE IF key \in InheritedKeys THEN Some(NotAString)
    ELSE None

Put(dict, key, val) == (key :> val) @@ dict

\* if (dict[key]): undefined and the empty string are falsy
Truthy(opt) == opt # None /\ opt[1] # <<>>

\* the words of the model: " Sit", "sit", "kur", "abc", "ma", "m", "old",
\* "de", "123"
T_Sit == <<32, 83, 105, 116>>
K_sit == <<115, 105, 116>>
V_kur == <<107, 117, 114>>
T_abc == <<97, 98, 99>>
T_ma == <<109, 97>>
T_m == <<109>>
K_old == <<111, 108, 100>>
V_de == <<100, 101>>
T_123 == <<49, 50, 51>>
T_Abc == <<65, 98, 99>>

\* "/skip", "/correct", "/correct old", "/correct Sit", and the plain text
\* "ma /skip"
T_skip == P_skip
T_correct == P_correct
T_correctOld == P_correct \o <<32>> \o K_old
T_correctSit == P_correct \o T_Sit
T_maSkip == T_ma \o <<32>> \o P_skip
T_correctSkip == P_correct \o <<32>> \o P_skip

\* "/correct abc"
T_correctAbc == P_correct \o <<32>> \o T_abc

\* the entries of the base dictionary that the modelled messages can hit
tuluDictionary == (K_sit :> V_kur)

Users == {1, 2}

\* the texts of inbound messages (msg.text)
MsgTexts == {T_Sit, T_abc, T_Abc, T_ma, T_m, T_ctor, T_123}

\* the texts of inbound messages in the runs that overlap handler bodies
ConcTexts == {T_abc, T_ma}

\* the texts of inbound messages in the runs with commands
CmdTexts == {T_Sit, T_abc, T_ma, T_m, T_maSkip, T_skip, T_correct,
             T_correctOld, T_correctSit, T_correctSkip, T_correctAbc}

\* a taught_dictionary collection left by an earlier run of the process
PreTaught == (K_old :> [tulu |-> V_de, usage_count |-> 1])

\* what the translation API answers: no usable response (timeout, non-2xx
\* status, exception), or the joined text of the response: blank, the single
\* letter U+0C88, a Kannada-script word, the query itself, a Roman word
FetchBodies == {<<32>>, <<3208>>, <<3240, 3246>>, <<32, 100, 101>>}
FetchResponses(query) == {None} \cup {Some(b) : b \in FetchBodies \cup {query}}

\* --------------------------------------------------------------- variables
VARIABLES
    conc,                \* the run overlaps handler bodies (SpecConc)
    cmd,                 \* the run has commands (SpecCmd)
    mongoAvailable,      \* let mongoAvailable, fixed by startBot
    clock,               \* Date.now(), minutes
    ticks,               \* clock advances so far
    taughtStore,         \* db.collection('taught_dictionary')
    apiStore,            \* db.collection('api_cache')
    taughtWordsCache,    \* let taughtWordsCache
    lastCacheUpdate,     \* let lastCacheUpdate
    apiCache,            \* let apiCache (memory mode)
    learnedWords,        \* let learnedWords
    userStates,          \* const userStates
    messageProcessing,   \* let messageProcessing = new Set()
    msgs,                \* the distinct inbound messages so far
    deliveries,          \* the message of each delivery (an emit of 'message')
    h,                   \* the handler invocations, by delivery and listener
    replies,             \* bot.sendMessage calls made for each delivery
    bodyRuns,            \* handler bodies started for each message
    confirmedTaught,     \* key -> value of the latest successful save
    baseStore,           \* v6.0: db.collection('base_dictionary')
    baseDictionaryCache, \* v6.0: let baseDictionaryCache
    lastBaseCacheUpdate, \* v6.0: let lastBaseCacheUpdate
    timers               \* v5.0: the pending setTimeout callbacks

vars == <<conc, cmd, mongoAvailable, clock, ticks, taughtStore, apiStore, taughtWordsCache,
          lastCacheUpdate, apiCache, learnedWords, userStates, messageProcessing,
          msgs, deliveries, h, replies, bodyRuns, confirmedTaught, baseStore,
          baseDictionaryCache, lastBaseCacheUpdate, timers>>

\* per delivery: the two 'message' listeners (1, 2) and the /correct
\* callback (3)
HandlerIds == (1..MaxDeliveries) \X {1, 2, 3}

Idle ==
    [pc |-> "idle", user |-> 0, msg |-> 0, text |-> <<>>, sent |-> FALSE,
     st |-> None, age |-> 0, now |-> 0, snap |-> <<>>, doc |-> None,
     res |-> None, cons |-> <<>>, held |-> {}, net |-> FALSE, seen |-> <<>>,
     err |-> FALSE, reply |-> "none"]

\* continuations that are queued microtasks: they run before anything else
UrgentPcs == {"start", "tier1", "tier2", "tier4", "reply", "finish",
              "correct", "decide"}

NoUrgent == \A id \in HandlerIds : h[id].pc \notin UrgentPcs

InFlight == {id \in HandlerIds : h[id].pc \notin {"idle", "done", "dropped"}}

\* the caps of a run: one handler body at a time, or overlapping bodies over
\* fewer texts
InFlightCap == IF conc THEN MaxInFlight + 1 ELSE MaxInFlight
MsgCap == IF conc \/ cmd THEN MaxMsgs + 1 ELSE MaxMsgs
TickCap == IF conc \/ cmd THEN MaxTicks - 1 ELSE MaxTicks
Texts == IF conc THEN ConcTexts ELSE IF cmd THEN CmdTexts ELSE MsgTexts
Senders == IF cmd THEN {1} ELSE Users

\* the process starts more than CACHE_DURATION after the epoch
StartClock == CACHE_DURATION + 1

TickSteps == {CACHE_DURATION + 1}

\* loadFromTaughtDictionary: words[doc.english] = doc.tulu
Snapshot(store) == [k \in DOMAIN store |-> store[k].tulu]

\* startBot: mongoAvailable = await initializeMongoDB(); with the store
\* available learnedWords = await getCachedTaughtWords()
InitCaches ==
    /\ taughtWordsCache = Snapshot(taughtStore)
    /\ lastCacheUpdate = (IF mongoAvailable THEN clock ELSE 0)
    /\ learnedWords = Snapshot(taughtStore)

\* the store is unavailable and a word was taught earlier in this run: the
\* first message refreshed the (empty) cache, the answer to the teaching
\* request was saved by the memory branch of saveToTaughtDictionary
InitTaughtInMemory ==
    /\ ~mongoAvailable
    /\ taughtWordsCache = Snapshot(PreTaught)
    /\ lastCacheUpdate = clock
    /\ learnedWords = Snapshot(PreTaught)

InitQuiet ==
    /\ clock = StartClock
    /\ ticks = 0
    /\ apiStore = <<>>
    /\ apiCache = <<>>
    /\ userStates = [u \in Users |-> None]
    /\ messageProcessing = {}
    /\ msgs = <<>>
    /\ deliveries = <<>>
    /\ h = [id \in HandlerIds |-> Idle]
    /\ replies = [d \in 1..MaxDeliveries |-> 0]
    /\ bodyRuns = [m \in 1..(MaxMsgs + 1) |-> 0]
    /\ confirmedTaught = <<>>
    /\ timers = {}

InitCommon == InitQuiet /\ InitCaches

\* v5.2 has no base_dictionary collection
NoBase ==
    /\ baseStore = <<>>
    /\ baseDictionaryCache = <<>>
    /\ lastBaseCacheUpdate = 0

Init ==
    /\ NoBase
    /\ conc = FALSE
    /\ cmd = FALSE
    /\ mongoAvailable \in BOOLEAN
    /\ taughtStore \in (IF mongoAvailable THEN {<<>>, PreTaught} ELSE {<<>>})
    /\ InitCommon

\* the store is available and holds a word taught in an earlier run
InitConc ==
    /\ NoBase
    /\ conc = TRUE
    /\ cmd = FALSE
    /\ mongoAvailable = TRUE
    /\ taughtStore = PreTaught
    /\ InitCommon

\* a run in which the user also sends commands
InitCmd ==
    /\ NoBase
    /\ conc = FALSE
    /\ cmd = TRUE
    /\ mongoAvailable \in BOOLEAN
    /\ taughtStore \in (IF mongoAvailable THEN {<<>>, PreTaught} ELSE {<<>>})
    /\ InitQuiet
    /\ InitCaches \/ InitTaughtInMemory


\* ------------------------------------------------- the code's pure pieces
\* translateToTulu tier 1: if (tuluDictionary[lowerText])
BaseLookupMut(key) == None

BaseLookup(key) == Get(tuluDictionary, key)

\* getCachedTaughtWords: now - lastCacheUpdate > CACHE_DURATION || no keys
CacheStaleMut(now, last, cache) == DOMAIN cache = {}

CacheStale(now, last, cache) == now - last > CACHE_DURATION \/ DOMAIN cache = {}

\* loadFromAPICache: the entry of the key unless its translation has Kannada
\* script (table: apiCache in memory mode, the api_cache collection otherwise)
ApiLookup(table, key) ==
    IF key \in DOMAIN table /\ ~HasKannada(table[key].translation)
    THEN Some(table[key].translation)
    ELSE None

\* tryAPITranslation: text.length <= 2 || /^\d+$/.test(text)
FetchSkipsMut(text) == Len(text) <= 2

FetchSkips(text) == Len(text) <= 2 \/ IsNumeric(text)

\* tryAPITranslation: the translation it returns for a response, or null
TryAPIResultMut(response) ==
    IF response = None THEN None ELSE Some(Trim(response[1]))

TryAPIResult(response) ==
    IF response = None THEN None
    ELSE LET translation == Trim(response[1]) IN
         IF translation = <<>> \/ translation = <<3208>> \/ Len(translation) <= 1
         THEN None
         ELSE Some(translation)

\* saveToAPICache: if (!translation || /[ಀ-೿]/.test(translation)) return
CacheAccepts(translation) == translation # <<>> /\ ~HasKannada(translation)

\* learnNewWord: if (tuluWord.length < 2) return false
LearnValid(tuluWord) == Len(tuluWord) >= 2

\* messageProcessing.add(messageId)
MarkProcessingMut(set, id) == set

MarkProcessing(set, id) == set \cup {id}

\* const messageId = `${msg.chat.id}_${msg.message_id}` (a private chat: the
\* chat id is the user id)
MessageId(ms, m) == <<ms[m].user, m>>

Result(translation, found, tier, verify) ==
    [translation |-> translation, found |-> found, tier |-> tier,
     needsVerification |-> verify]

\* userStates[userId] = { mode: 'learning', englishWord: lowerText, ... }
LearningState(text) ==
    Some([mode |-> "learning", englishWord |-> Normalize(text),
          originalText |-> text, oldTranslation |-> None, timestamp |-> clock])

\* userStates[userId] = { mode: 'correcting', englishWord: wordToCorrect,
\* originalText: wordToCorrect, oldTranslation: currentTranslation, ... }
CorrectingStateMut(word, current) ==
    Some([mode |-> "editing", englishWord |-> word, originalText |-> word,
          oldTranslation |-> current, timestamp |-> clock])

CorrectingState(word, current) ==
    Some([mode |-> "correcting", englishWord |-> word, originalText |-> word,
          oldTranslation |-> current, timestamp |-> clock])

\* clearUserState: if (userStates[userId]) delete userStates[userId]
ClearUserStateMut(states, u) == states

ClearEveryStateMut(states, u) == [v \in DOMAIN states |-> None]

ClearUserState(states, u) == [states EXCEPT ![u] = None]

Done == [Idle EXCEPT !.pc = "done"]

Dropped == [Idle EXCEPT !.pc = "dropped"]


\* ------------------------------------------------------------------ actions
coreStore == <<taughtStore, apiStore>>
coreCache == <<taughtWordsCache, lastCacheUpdate, apiCache, learnedWords>>
coreInbox == <<msgs, deliveries, bodyRuns>>
coreBase == <<baseStore, baseDictionaryCache, lastBaseCacheUpdate>>
coreEnv == <<conc, cmd, mongoAvailable, clock, ticks, coreBase, timers>>

\* bot.emit('message', msg): both listeners are called in turn, each running
\* up to its first await.  Each returns at once when the message id is in
\* messageProcessing, and otherwise adds it and goes on.
Dispatch(m) ==
    LET d == Len(deliveries) + 1
        id == MessageId(msgs', m)
        first == id \notin messageProcessing
        room == Cardinality(InFlight) < InFlightCap
        mp1 == IF first THEN MarkProcessing(messageProcessing, id)
               ELSE messageProcessing
        second == id \notin mp1
        mp2 == IF second THEN MarkProcessing(mp1, id) ELSE mp1
        started == [Idle EXCEPT !.pc = "start", !.user = msgs'[m].user,
                                !.msg = m, !.text = Trim(msgs'[m].text),
                                !.st = userStates[msgs'[m].user]]
    IN  /\ first => room
        /\ deliveries' = Append(deliveries, m)
        /\ messageProcessing' = mp2
        /\ h' = [h EXCEPT ![<<d, 1>>] = IF first THEN started ELSE Dropped,
                          ![<<d, 2>>] = IF second THEN started ELSE Dropped]
        /\ bodyRuns' = [bodyRuns EXCEPT ![m] = @ + (IF first THEN 1 ELSE 0)
                                                 + (IF second THEN 1 ELSE 0)]

\* the /skip|/cancel callback, called after the 'message' listeners for
\* every text the pattern matches: clearUserState(userId), then one
\* bot.sendMessage ("Operation Cancelled" or "No active operation")
SkipCallback(u, text) ==
    LET d == Len(deliveries) + 1
    IN  IF MatchesSkip(text)
        THEN /\ userStates' = ClearUserState(userStates, u)
             /\ replies' = [replies EXCEPT ![d] = @ + 1]
        ELSE UNCHANGED <<userStates, replies>>

\* a new plain-text message arrives: if (!msg.text || msg.text.startsWith('/')) return
Deliver(u, text) ==
    /\ NoUrgent
    /\ Len(msgs) < MsgCap
    /\ Len(deliveries) < MaxDeliveries
    /\ text # <<>> /\ ~IsCommand(text)
    /\ msgs' = Append(msgs, [user |-> u, text |-> text])
    /\ Dispatch(Len(msgs) + 1)
    /\ SkipCallback(u, text)
    /\ UNCHANGED <<coreEnv, coreStore, coreCache, confirmedTaught>>

\* the transport delivers a plain-text message again (at-least-once delivery)
Redeliver(m) ==
    /\ NoUrgent
    /\ m \in 1..Len(msgs)
    /\ ~IsCommand(msgs[m].text)
    /\ Len(deliveries) < MaxDeliveries
    /\ msgs' = msgs
    /\ Dispatch(m)
    /\ SkipCallback(msgs[m].user, msgs[m].text)
    /\ UNCHANGED <<coreEnv, coreStore, coreCache, confirmedTaught>>

\* a command arrives: both 'message' listeners return at once
\* (msg.text.startsWith('/')); the /correct callback starts when its pattern
\* matches, and the /skip|/cancel callback runs when its pattern matches
Command(u, text) ==
    LET d == Len(deliveries) + 1
        m == Len(msgs) + 1
        started == [Idle EXCEPT !.pc = "correct", !.user = u, !.msg = m,
                                !.text = text]
    IN  /\ NoUrgent
        /\ Len(msgs) < MsgCap
        /\ Len(deliveries) < MaxDeliveries
        /\ Cardinality(InFlight) < InFlightCap
        /\ IsCommand(text)
        /\ msgs' = Append(msgs, [user |-> u, text |-> text])
        /\ deliveries' = Append(deliveries, m)
        /\ h' = [h EXCEPT ![<<d, 3>>] =
                   IF CorrectMatch(text) # None THEN started ELSE Done]
        /\ SkipCallback(u, text)
        /\ UNCHANGED <<coreEnv, coreStore, coreCache, messageProcessing,
                       bodyRuns, confirmedTaught>>

\* the /correct callback up to its first await: without a word one usage
\* reply; otherwise getCachedTaughtWords (a stale or empty cache is reloaded;
\* memory mode: loadFromTaughtDictionary returns {} at once)
Correct(id) ==
    LET hd == h[id]
        match == CorrectMatch(hd.text)
    IN  /\ hd.pc = "correct"
        /\ IF match[1] = None
           THEN /\ replies' = [replies EXCEPT ![id[1]] = @ + 1]
                /\ h' = [h EXCEPT ![id] = Done]
                /\ UNCHANGED <<taughtWordsCache, lastCacheUpdate>>
           ELSE IF ~CacheStale(clock, lastCacheUpdate, taughtWordsCache)
           THEN /\ h' = [h EXCEPT ![id] = [hd EXCEPT !.pc = "decide"]]
                /\ UNCHANGED <<taughtWordsCache, lastCacheUpdate, replies>>
           ELSE IF ~mongoAvailable
           THEN /\ taughtWordsCache' = <<>>
                /\ lastCacheUpdate' = clock
                /\ h' = [h EXCEPT ![id] = [hd EXCEPT !.pc = "decide"]]
                /\ replies' = replies
           ELSE /\ h' = [h EXCEPT ![id] = [hd EXCEPT !.pc = "load",
                                                     !.now = clock]]
                /\ UNCHANGED <<taughtWordsCache, lastCacheUpdate, replies>>
        /\ UNCHANGED <<coreEnv, coreStore, apiCache, learnedWords, userStates,
                       messageProcessing, coreInbox, confirmedTaught>>

\* the /correct callback after getCachedTaughtWords: currentTranslation =
\* tuluDictionary[word] || taughtWords[word]; a base word and an unknown word
\* are refused, a taught word puts the user in correcting mode; one reply
Decide(id) ==
    LET hd == h[id]
        word == Normalize(CorrectMatch(hd.text)[1][1])
        base == Get(tuluDictionary, word)
        current == IF Truthy(base) THEN base ELSE Get(taughtWordsCache, word)
    IN  /\ hd.pc = "decide"
        /\ userStates' = IF Truthy(current) /\ ~Truthy(base)
                         THEN [userStates EXCEPT ![hd.user] =
                                  CorrectingState(word, current)]
                         ELSE userStates
        /\ replies' = [replies EXCEPT ![id[1]] = @ + 1]
        /\ h' = [h EXCEPT ![id] = Done]
        /\ UNCHANGED <<coreEnv, coreStore, coreCache, messageProcessing,
                       coreInbox, confirmedTaught>>

\* Date.now() advances
Tick(step) ==
    /\ NoUrgent
    /\ ticks < TickCap
    /\ clock' = clock + step
    /\ ticks' = ticks + 1
    /\ UNCHANGED <<conc, cmd, mongoAvailable, coreStore, coreCache, userStates,
                   messageProcessing, coreInbox, h, replies, confirmedTaught,
                   coreBase, timers>>

\* learnNewWord after a successful save: learnedWords[lowerEnglish] =
\* tuluWord; delete userStates[userId]; return true
Learned(hd, key, tulu) ==
    /\ learnedWords' = Put(learnedWords, key, tulu)
    /\ userStates' = [userStates EXCEPT ![hd.user] = None]
    /\ confirmedTaught' = Put(confirmedTaught, key, tulu)

\* the handler body up to its first await: if (userStates[userId]) with mode
\* 'learning' or 'correcting', learnNewWord(state.englishWord, userText, ...);
\* otherwise translateToTulu(userText, userId)
Begin(id) ==
    LET hd == h[id]
        s == hd.st
        special == s # None /\ s[1].mode \in {"learning", "correcting"}
        key == IF special THEN Normalize(s[1].englishWord) ELSE <<>>
        tulu == Trim(hd.text)
        me == [hd EXCEPT !.st = s,
                         !.age = IF special THEN clock - s[1].timestamp ELSE 0,
                         !.reply = IF ~special THEN "none"
                                   ELSE IF s[1].mode = "learning" THEN "taught"
                                   ELSE "corrected"]
    IN  /\ hd.pc = "start"
        /\ IF ~special
           THEN /\ h' = [h EXCEPT ![id] = [hd EXCEPT !.pc = "tier1",
                                                     !.seen = confirmedTaught]]
                /\ UNCHANGED <<coreCache, userStates, confirmedTaught>>
           ELSE IF ~LearnValid(tulu)
           THEN /\ h' = [h EXCEPT ![id] = [me EXCEPT !.pc = "finish"]]
                /\ UNCHANGED <<coreCache, userStates, confirmedTaught>>
           ELSE IF ~mongoAvailable
           THEN \* saveToTaughtDictionary, memory branch
                /\ taughtWordsCache' = Put(taughtWordsCache, key, tulu)
                /\ h' = [h EXCEPT ![id] = [me EXCEPT !.pc = "reply"]]
                /\ Learned(me, key, tulu)
                /\ UNCHANGED <<lastCacheUpdate, apiCache>>
           ELSE \* await db.collection('taught_dictionary').findOne(...)
                /\ h' = [h EXCEPT ![id] = [me EXCEPT !.pc = "findOne"]]
                /\ UNCHANGED <<coreCache, userStates, confirmedTaught>>
        /\ UNCHANGED <<coreEnv, coreStore, messageProcessing, coreInbox, replies>>

\* saveToTaughtDictionary: findOne has answered (existing, or an error that
\* the catch turns into "return false"); then await replaceOne(...)
FindOneDone(id, ok) ==
    LET hd == h[id]
        key == Normalize(hd.st[1].englishWord)
        existing == Get(taughtStore, key)
        doc == [tulu |-> Trim(hd.text),
                usage_count |-> IF existing # None
                                THEN existing[1].usage_count + 1 ELSE 1]
    IN  /\ hd.pc = "findOne"
        /\ NoUrgent
        /\ h' = [h EXCEPT ![id] =
                   IF ok THEN [hd EXCEPT !.pc = "replaceOne", !.doc = Some(doc)]
                   ELSE [hd EXCEPT !.pc = "finish", !.err = TRUE]]
        /\ UNCHANGED <<coreEnv, coreStore, coreCache, userStates,
                       messageProcessing, coreInbox, replies, confirmedTaught>>

\* saveToTaughtDictionary: replaceOne has answered; taughtWordsCache[doc.english]
\* = doc.tulu; return true (an error: return false)
ReplaceOneDone(id, ok) ==
    LET hd == h[id]
        key == Normalize(hd.st[1].englishWord)
    IN  /\ hd.pc = "replaceOne"
        /\ NoUrgent
        /\ IF ok
           THEN /\ taughtStore' = Put(taughtStore, key, hd.doc[1])
                /\ taughtWordsCache' = Put(taughtWordsCache, key, hd.doc[1].tulu)
                /\ Learned(hd, key, hd.doc[1].tulu)
                /\ h' = [h EXCEPT ![id] = [hd EXCEPT !.pc = "reply",
                                                     !.doc = None]]
           ELSE /\ h' = [h EXCEPT ![id] = [hd EXCEPT !.pc = "finish",
                                                     !.doc = None, !.err = TRUE]]
                /\ UNCHANGED <<taughtStore, taughtWordsCache, learnedWords,
                               userStates, confirmedTaught>>
        /\ UNCHANGED <<coreEnv, apiStore, lastCacheUpdate, apiCache,
                       messageProcessing, coreInbox, replies>>

\* translateToTulu returns a found result of the given tier
Found(id, translation, tier, verify, cons, held) ==
    h' = [h EXCEPT ![id] = [h[id] EXCEPT
             !.pc = "reply", !.res = Some(Result(translation, TRUE, tier, verify)),
             !.cons = cons, !.held = held, !.doc = None, !.reply = "found"]]

\* translateToTulu tier 5: userStates[userId] = {mode: 'learning', ...};
\* return {translation: null, found: false, tier: 5}
Tier5(id, cons, held) ==
    /\ userStates' = [userStates EXCEPT ![h[id].user] = LearningState(h[id].text)]
    /\ h' = [h EXCEPT ![id] = [h[id] EXCEPT
               !.pc = "reply", !.res = Some(Result(None, FALSE, 5, FALSE)),
               !.cons = Append(cons, 5), !.held = held, !.reply = "teach"]]

\* translateToTulu tier 1, and on a miss the start of getCachedTaughtWords:
\* a stale or empty cache is reloaded (memory mode: loadFromTaughtDictionary
\* returns {} at once)
Tier1(id) ==
    LET hd == h[id]
        key == Normalize(hd.text)
        base == BaseLookup(key)
        held == IF key \in DOMAIN tuluDictionary THEN {1} ELSE {}
        me == [hd EXCEPT !.cons = <<1>>, !.held = held]
    IN  /\ hd.pc = "tier1"
        /\ IF Truthy(base)
           THEN /\ Found(id, base, 1, FALSE, <<1>>, held)
                /\ UNCHANGED <<taughtWordsCache, lastCacheUpdate>>
           ELSE IF ~CacheStale(clock, lastCacheUpdate, taughtWordsCache)
           THEN /\ h' = [h EXCEPT ![id] = [me EXCEPT !.pc = "tier2"]]
                /\ UNCHANGED <<taughtWordsCache, lastCacheUpdate>>
           ELSE IF ~mongoAvailable
           THEN /\ taughtWordsCache' = <<>>
                /\ lastCacheUpdate' = clock
                /\ h' = [h EXCEPT ![id] = [me EXCEPT !.pc = "tier2"]]
           ELSE /\ h' = [h EXCEPT ![id] = [me EXCEPT !.pc = "load",
                                                     !.now = clock]]
                /\ UNCHANGED <<taughtWordsCache, lastCacheUpdate>>
        /\ UNCHANGED <<coreEnv, coreStore, apiCache, learnedWords, userStates,
                       messageProcessing, coreInbox, replies, confirmedTaught>>

\* the find({}) cursor of loadFromTaughtDictionary reads the collection (an
\* error: the catch returns {})
DbServeFind(id, ok) ==
    LET hd == h[id]
    IN  /\ hd.pc = "load"
        /\ NoUrgent
        /\ h' = [h EXCEPT ![id] = [hd EXCEPT !.pc = "loaded",
                     !.snap = IF ok THEN Snapshot(taughtStore) ELSE <<>>,
                     !.err = ~ok]]
        /\ UNCHANGED <<coreEnv, coreStore, coreCache, userStates,
                       messageProcessing, coreInbox, replies, confirmedTaught>>

\* getCachedTaughtWords: taughtWordsCache = await loadFromTaughtDictionary();
\* lastCacheUpdate = now (the time read before the load)
LoadDone(id) ==
    LET hd == h[id]
    IN  /\ hd.pc = "loaded"
        /\ NoUrgent
        /\ taughtWordsCache' = hd.snap
        /\ lastCacheUpdate' = hd.now
        /\ h' = [h EXCEPT ![id] = [hd EXCEPT
                     !.pc = IF id[2] = 3 THEN "decide" ELSE "tier2",
                     !.snap = <<>>, !.now = 0]]
        /\ UNCHANGED <<coreEnv, coreStore, apiCache, learnedWords, userStates,
                       messageProcessing, coreInbox, replies, confirmedTaught>>

\* translateToTulu tier 2 on the snapshot getCachedTaughtWords returned, and
\* on a miss tier 3: loadFromAPICache (memory mode: apiCache[key], at once)
Tier2(id) ==
    LET hd == h[id]
        key == Normalize(hd.text)
        taught == Get(taughtWordsCache, key)
        held2 == hd.held \cup (IF key \in DOMAIN taughtWordsCache THEN {2} ELSE {})
        cached == ApiLookup(apiCache, key)
        held3 == held2 \cup (IF key \in DOMAIN apiCache THEN {3} ELSE {})
    IN  /\ hd.pc = "tier2"
        /\ IF Truthy(taught)
           THEN Found(id, taught, 2, FALSE, <<1, 2>>, held2)
           ELSE IF mongoAvailable
           THEN h' = [h EXCEPT ![id] = [hd EXCEPT !.pc = "apiFind",
                                           !.cons = <<1, 2>>, !.held = held2]]
           ELSE IF cached # None
           THEN Found(id, cached, 3, FALSE, <<1, 2, 3>>, held3)
           ELSE h' = [h EXCEPT ![id] = [hd EXCEPT !.pc = "tier4",
                                           !.cons = <<1, 2, 3>>, !.held = held3]]
        /\ UNCHANGED <<coreEnv, coreStore, coreCache, userStates,
                       messageProcessing, coreInbox, replies, confirmedTaught>>

\* loadFromAPICache: findOne on api_cache has answered (an error: null)
ApiFindDone(id, ok) ==
    LET hd == h[id]
        key == Normalize(hd.text)
        cached == IF ok THEN ApiLookup(apiStore, key) ELSE None
        held3 == hd.held \cup (IF key \in DOMAIN apiStore THEN {3} ELSE {})
    IN  /\ hd.pc = "apiFind"
        /\ NoUrgent
        /\ IF cached # None
           THEN Found(id, cached, 3, FALSE, <<1, 2, 3>>, held3)
           ELSE h' = [h EXCEPT ![id] = [hd EXCEPT !.pc = "tier4",
                         !.cons = <<1, 2, 3>>, !.held = held3,
                         !.err = hd.err \/ ~ok]]
        /\ UNCHANGED <<coreEnv, coreStore, coreCache, userStates,
                       messageProcessing, coreInbox, replies, confirmedTaught>>

\* translateToTulu tier 4: tryAPITranslation(text) returns null at once for a
\* short or numeric text, and otherwise waits 1.5 s and calls fetch(url)
Tier4(id) ==
    LET hd == h[id]
        cons == Append(hd.cons, 4)
    IN  /\ hd.pc = "tier4"
        /\ IF FetchSkips(hd.text)
           THEN Tier5(id, cons, hd.held)
           ELSE /\ h' = [h EXCEPT ![id] = [hd EXCEPT !.pc = "fetch",
                                              !.cons = cons, !.net = TRUE]]
                /\ userStates' = userStates
        /\ UNCHANGED <<coreEnv, coreStore, coreCache, messageProcessing,
                       coreInbox, replies, confirmedTaught>>

\* the translation API has answered (or timed out): tryAPITranslation
\* validates; on a result translateToTulu awaits saveToAPICache(lowerText, ...)
\* and returns tier 4, otherwise it falls to tier 5
FetchDone(id, response) ==
    LET hd == h[id]
        key == Normalize(hd.text)
        apiResult == TryAPIResult(response)
        held4 == hd.held \cup {4}
        entry == [translation |-> Trim(apiResult[1])]
    IN  /\ hd.pc = "fetch"
        /\ NoUrgent
        /\ response \in FetchResponses(hd.text)
        /\ IF ~Truthy(apiResult)
           THEN /\ Tier5(id, hd.cons, hd.held)
                /\ apiCache' = apiCache
           ELSE IF ~CacheAccepts(apiResult[1])
           THEN /\ Found(id, apiResult, 4, TRUE, hd.cons, held4)
                /\ UNCHANGED <<apiCache, userStates>>
           ELSE IF ~mongoAvailable
           THEN /\ apiCache' = Put(apiCache, key, entry)
                /\ Found(id, apiResult, 4, TRUE, hd.cons, held4)
                /\ userStates' = userStates
           ELSE /\ h' = [h EXCEPT ![id] = [hd EXCEPT !.pc = "apiSave",
                             !.held = held4, !.doc = apiResult]]
                /\ UNCHANGED <<apiCache, userStates>>
        /\ UNCHANGED <<coreEnv, coreStore, taughtWordsCache, lastCacheUpdate,
                       learnedWords, messageProcessing, coreInbox, replies,
                       confirmedTaught>>

\* saveToAPICache: replaceOne on api_cache has answered (an error is logged
\* and swallowed); translateToTulu returns the fresh result
ApiSaveDone(id, ok) ==
    LET hd == h[id]
        key == Normalize(hd.text)
        entry == [translation |-> Trim(hd.doc[1])]
    IN  /\ hd.pc = "apiSave"
        /\ NoUrgent
        /\ apiStore' = IF ok THEN Put(apiStore, key, entry) ELSE apiStore
        /\ h' = [h EXCEPT ![id] = [hd EXCEPT
                     !.pc = "reply", !.res = Some(Result(hd.doc, TRUE, 4, TRUE)),
                     !.doc = None, !.reply = "found", !.err = hd.err \/ ~ok]]
        /\ UNCHANGED <<coreEnv, taughtStore, coreCache, userStates,
                       messageProcessing, coreInbox, replies, confirmedTaught>>

\* sendSingleResponse (first listener: if (responseSent) return; responseSent
\* = true) and bot.sendMessage(msg.chat.id, ...)
Reply(id) ==
    LET hd == h[id]
        d == id[1]
        latched == id[2] = 1 /\ hd.sent
    IN  /\ hd.pc = "reply"
        /\ replies' = [replies EXCEPT ![d] = IF latched THEN @ ELSE @ + 1]
        /\ h' = [h EXCEPT ![id] = [hd EXCEPT !.pc = "sending", !.sent = TRUE]]
        /\ UNCHANGED <<coreEnv, coreStore, coreCache, userStates,
                       messageProcessing, coreInbox, confirmedTaught>>

\* finally { messageProcessing.delete(messageId) }
FinallyMut(id) ==
    /\ messageProcessing' = messageProcessing
    /\ h' = [h EXCEPT ![id] = Done]

Finally(id) ==
    /\ messageProcessing' = messageProcessing \ {MessageId(msgs, h[id].msg)}
    /\ h' = [h EXCEPT ![id] = Done]

\* bot.sendMessage has settled; the second listener's correcting branch then
\* runs delete userStates[userId]; the finally block runs
SendDone(id) ==
    LET hd == h[id]
    IN  /\ hd.pc = "sending"
        /\ NoUrgent
        /\ Finally(id)
        /\ userStates' = IF id[2] = 2 /\ hd.reply = "corrected"
                         THEN [userStates EXCEPT ![hd.user] = None]
                         ELSE userStates
        /\ UNCHANGED <<coreEnv, coreStore, coreCache, coreInbox, replies,
                       confirmedTaught>>

\* learnNewWord returned false (a translation under 2 characters, a failed
\* save): the handler returns without a reply; the finally block runs
Finish(id) ==
    /\ h[id].pc = "finish"
    /\ Finally(id)
    /\ UNCHANGED <<coreEnv, coreStore, coreCache, userStates, coreInbox, replies,
                   confirmedTaught>>

Next ==
    \/ \E u \in Senders, text \in Texts : Deliver(u, text)
    \/ \E m \in 1..(MaxMsgs + 1) : Redeliver(m)
    \/ \E step \in TickSteps : Tick(step)
    \/ \E id \in HandlerIds : Begin(id)
    \/ \E id \in HandlerIds, ok \in BOOLEAN : FindOneDone(id, ok)
    \/ \E id \in HandlerIds, ok \in BOOLEAN : ReplaceOneDone(id, ok)
    \/ \E id \in HandlerIds : Tier1(id)
    \/ \E id \in HandlerIds, ok \in BOOLEAN : DbServeFind(id, ok)
    \/ \E id \in HandlerIds : LoadDone(id)
    \/ \E id \in HandlerIds : Tier2(id)
    \/ \E id \in HandlerIds, ok \in BOOLEAN : ApiFindDone(id, ok)
    \/ \E id \in HandlerIds : Tier4(id)
    \/ \E id \in HandlerIds : \E r \in FetchResponses(h[id].text) : FetchDone(id, r)
    \/ \E id \in HandlerIds, ok \in BOOLEAN : ApiSaveDone(id, ok)
    \/ \E id \in HandlerIds : Reply(id)
    \/ \E id \in HandlerIds : SendDone(id)
    \/ \E id \in HandlerIds : Finish(id)

Spec == Init /\ [][Next]_vars

\* the steps of the handlers: the event loop runs every queued continuation,
\* and every store call and fetch settles (the fetch is aborted after 8 s,
\* the driver rejects a call it cannot serve)
HandlerStep ==
    \E id \in HandlerIds :
        \/ Begin(id) \/ Tier1(id) \/ LoadDone(id) \/ Tier2(id) \/ Tier4(id)
        \/ Reply(id) \/ SendDone(id) \/ Finish(id)
        \/ \E ok \in BOOLEAN :
              \/ FindOneDone(id, ok) \/ ReplaceOneDone(id, ok)
              \/ DbServeFind(id, ok) \/ ApiFindDone(id, ok) \/ ApiSaveDone(id, ok)
        \/ \E r \in FetchResponses(h[id].text) : FetchDone(id, r)

\* deliveries in the runs that are checked for progress
MaxLiveDeliveries == 2

NextLive == Next /\ Len(deliveries') <= MaxLiveDeliveries

SpecLive == Init /\ [][NextLive]_vars /\ WF_vars(HandlerStep)

\* the bot with the /correct and /skip commands
NextCmd ==
    \/ Next
    \/ \E u \in Senders, text \in Texts : Command(u, text)
    \/ \E id \in HandlerIds : Correct(id)
    \/ \E id \in HandlerIds : Decide(id)

SpecCmd == InitCmd /\ [][NextCmd]_vars

SpecConc == InitConc /\ [][Next]_vars


\* ------------------------------------------ v6.0 (src/unnamed/part_000)
\* The base dictionary of v6.0 is a MongoDB collection that /correct can
\* edit.  Its handlers are taken one update at a time: each action is one
\* handler from the update to its last step, with the outcome of every store
\* and network call it makes chosen by the environment.

\* const BASE_CACHE_DURATION = 10 * 60 * 1000, in minutes
BASE_CACHE_DURATION == 10

\* a base_dictionary document of initializeBaseDictionary: 'sit': 'kur'
BaseSeed == (K_sit :> [tulu |-> V_kur, update_count |-> 0])

\* loadFromBaseDictionary: words[doc.english] = doc.tulu
BaseSnapshot(store) == [k \in DOMAIN store |-> store[k].tulu]

\* initializeBaseDictionary: nothing without the store; a collection that
\* has documents is left alone; an empty one gets the seed entries
InitializeBaseDictionary(available, store) ==
    IF ~available THEN store
    ELSE IF store # <<>> THEN store
    ELSE BaseSeed

\* the base_dictionary collection as the deployment finds it: empty, or
\* holding the documents written into it before
BaseFound == {<<>>, BaseSeed}

\* startBot runs mongoAvailable = await initializeMongoDB(), and
\* initializeMongoDB calls initializeBaseDictionary before it returns, when
\* mongoAvailable still has its initial value false; with the store
\* available both caches are then loaded
InitV6 ==
    /\ conc = FALSE
    /\ cmd = TRUE
    /\ mongoAvailable \in BOOLEAN
    /\ taughtStore \in (IF mongoAvailable THEN {<<>>, PreTaught} ELSE {<<>>})
    /\ baseStore \in (IF mongoAvailable
                      THEN {InitializeBaseDictionary(FALSE, found) :
                               found \in BaseFound}
                      ELSE {<<>>})
    /\ InitCommon
    /\ baseDictionaryCache = BaseSnapshot(baseStore)
    /\ lastBaseCacheUpdate = (IF mongoAvailable THEN clock ELSE 0)

\* the outcomes of the store calls of one translateToTulu or /correct (TRUE:
\* the call succeeds)
StoreOutcomes ==
    [baseLoad : BOOLEAN, taughtLoad : BOOLEAN, apiFind : BOOLEAN,
     apiSave : BOOLEAN]

\* getCachedBaseDictionary: now - lastBaseCacheUpdate > BASE_CACHE_DURATION
\* || Object.keys(baseDictionaryCache).length === 0
BaseCacheStale ==
    \/ clock - lastBaseCacheUpdate > BASE_CACHE_DURATION
    \/ DOMAIN baseDictionaryCache = {}

\* getCachedBaseDictionary: the cache and its time after the call (a stale or
\* empty cache is reloaded; loadFromBaseDictionary returns {} without the
\* store and on an error)
CachedBase(ok) ==
    IF BaseCacheStale
    THEN [cache |-> IF mongoAvailable /\ ok THEN BaseSnapshot(baseStore) ELSE <<>>,
          last |-> clock]
    ELSE [cache |-> baseDictionaryCache, last |-> lastBaseCacheUpdate]

\* getCachedTaughtWords: the cache and its time after the call
CachedTaught(ok) ==
    IF CacheStale(clock, lastCacheUpdate, taughtWordsCache)
    THEN [cache |-> IF mongoAvailable /\ ok THEN Snapshot(taughtStore) ELSE <<>>,
          last |-> clock]
    ELSE [cache |-> taughtWordsCache, last |-> lastCacheUpdate]

\* userStates[userId] = { mode: 'correcting_base', englishWord: wordToCorrect,
\* originalText: wordToCorrect, oldTranslation: baseDictionary[word], ... }
CorrectingBaseState(word, current) ==
    Some([mode |-> "correcting_base", englishWord |-> word,
          originalText |-> word, oldTranslation |-> current,
          timestamp |-> clock])

\* what a finished handler leaves on record: the state it read, the result
\* of translateToTulu and the reply it sent
Finished(u, m, text, st, res, reply) ==
    [Idle EXCEPT !.pc = "done", !.user = u, !.msg = m, !.text = text,
                 !.st = st, !.res = res, !.reply = reply]

\* userStates after the /skip|/cancel callback has run its first step (it is
\* called for every text its pattern matches, after the 'message' listener
\* has read the state and before any awaited call of the listener returns)
AfterSkip(u, text) ==
    IF MatchesSkip(text) THEN ClearUserState(userStates, u) ELSE userStates

\* the sendMessage of the /skip|/cancel callback
SkipReplies(text) == IF MatchesSkip(text) THEN 1 ELSE 0

\* bot.on('message'): if (!msg.text || msg.text.startsWith('/')) return
V6Plain(text) ==
    /\ Len(msgs) < MsgCap
    /\ Len(deliveries) < MaxDeliveries
    /\ text # <<>> /\ ~IsCommand(text)

\* a plain-text message arrives at the one listener; the pending state of the
\* user decides between the special modes and the normal translation flow
V6Arrive(u, text) ==
    /\ V6Plain(text)
    /\ msgs' = Append(msgs, [user |-> u, text |-> text])
    /\ deliveries' = Append(deliveries, Len(msgs) + 1)
    /\ UNCHANGED <<conc, cmd, mongoAvailable, clock, ticks, learnedWords,
                   messageProcessing, bodyRuns, confirmedTaught, timers>>

\* the handler's branch for the state it finds: 'learning' or 'correcting',
\* 'correcting_base', or none
V6Mode(u) ==
    IF userStates[u] = None THEN "none" ELSE userStates[u][1].mode

\* mode 'learning' or 'correcting': learnNewWord(state.englishWord, userText)
\* validates, saveToTaughtDictionary writes (memory mode: the cache only),
\* delete userStates[userId], one reply; on false no reply (ok: findOne and
\* replaceOne both succeed)
V6Learn(u, text, ok) ==
    LET d == Len(deliveries) + 1
        st == userStates[u]
        key == Normalize(st[1].englishWord)
        tulu == Trim(text)
        saved == LearnValid(tulu) /\ (~mongoAvailable \/ ok)
        existing == Get(taughtStore, key)
        doc == [tulu |-> tulu,
                usage_count |-> IF existing # None
                                THEN existing[1].usage_count + 1 ELSE 1]
        reply == IF ~saved THEN "none"
                 ELSE IF st[1].mode = "learning" THEN "taught" ELSE "corrected"
    IN  /\ V6Arrive(u, text)
        /\ V6Mode(u) \in {"learning", "correcting"}
        /\ ok \/ (mongoAvailable /\ LearnValid(tulu))
        /\ taughtStore' = IF saved /\ mongoAvailable
                          THEN Put(taughtStore, key, doc) ELSE taughtStore
        /\ taughtWordsCache' = IF saved THEN Put(taughtWordsCache, key, tulu)
                               ELSE taughtWordsCache
        /\ userStates' = IF saved THEN ClearUserState(AfterSkip(u, text), u)
                         ELSE AfterSkip(u, text)
        /\ replies' = [replies EXCEPT ![d] =
                          SkipReplies(text) + (IF saved THEN 1 ELSE 0)]
        /\ h' = [h EXCEPT ![<<d, 1>>] =
                   Finished(u, Len(msgs) + 1, tulu, st, None, reply)]
        /\ UNCHANGED <<apiStore, apiCache, lastCacheUpdate, coreBase>>

\* mode 'correcting_base': updateBaseDictionary(state.englishWord, ...,
\* userText, ...) runs updateOne({english}, {$set: {tulu: newTranslation.trim()},
\* $inc: {update_count: 1}}); on success lastBaseCacheUpdate = 0 and one reply
V6UpdateBase(u, text, ok) ==
    LET d == Len(deliveries) + 1
        st == userStates[u]
        key == Normalize(st[1].englishWord)
        success == mongoAvailable /\ ok
    IN  /\ V6Arrive(u, text)
        /\ V6Mode(u) = "correcting_base"
        /\ ok \/ mongoAvailable
        /\ baseStore' = IF success /\ key \in DOMAIN baseStore
                        THEN [baseStore EXCEPT ![key] =
                                [tulu |-> Trim(text),
                                 update_count |-> @.update_count + 1]]
                        ELSE baseStore
        /\ lastBaseCacheUpdate' = IF success THEN 0 ELSE lastBaseCacheUpdate
        /\ userStates' = AfterSkip(u, text)
        /\ replies' = [replies EXCEPT ![d] =
                          SkipReplies(text) + (IF success THEN 1 ELSE 0)]
        /\ h' = [h EXCEPT ![<<d, 1>>] =
                   Finished(u, Len(msgs) + 1, Trim(text), st, None,
                            IF success THEN "based" ELSE "none")]
        /\ UNCHANGED <<taughtStore, apiStore, taughtWordsCache, lastCacheUpdate,
                       apiCache, baseDictionaryCache>>

\* translateToTulu of v6.0: the base dictionary cache, the taught cache, the
\* API cache, the translation API, and at last the request to teach; one reply
V6Translate(u, text, io, response) ==
    LET d == Len(deliveries) + 1
        userText == Trim(text)
        key == Normalize(userText)
        b == CachedBase(io.baseLoad)
        base == Get(b.cache, key)
        t == CachedTaught(io.taughtLoad)
        taught == Get(t.cache, key)
        cached == IF ~mongoAvailable THEN ApiLookup(apiCache, key)
                  ELSE IF io.apiFind THEN ApiLookup(apiStore, key)
                  ELSE None
        apiResult == IF FetchSkips(userText) THEN None
                     ELSE TryAPIResult(response)
        tier == IF Truthy(base) THEN 1
                ELSE IF Truthy(taught) THEN 2
                ELSE IF cached # None THEN 3
                ELSE IF Truthy(apiResult) THEN 4
                ELSE 5
        res == CASE tier = 1 -> Result(base, TRUE, 1, FALSE)
                 [] tier = 2 -> Result(taught, TRUE, 2, FALSE)
                 [] tier = 3 -> Result(cached, TRUE, 3, FALSE)
                 [] tier = 4 -> Result(apiResult, TRUE, 4, TRUE)
                 [] OTHER -> Result(None, FALSE, 5, FALSE)
        saves == tier = 4 /\ CacheAccepts(apiResult[1])
        entry == [translation |-> Trim(apiResult[1])]
        \* the calls the resolution makes whose failure can be told from
        \* their success (a failed read returns what an empty collection does)
        loads1 == mongoAvailable /\ BaseCacheStale /\ baseStore # <<>>
        loads2 == mongoAvailable /\ ~Truthy(base) /\ taughtStore # <<>>
                  /\ CacheStale(clock, lastCacheUpdate, taughtWordsCache)
        finds == mongoAvailable /\ ~Truthy(base) /\ ~Truthy(taught)
                 /\ ApiLookup(apiStore, key) # None
        fetches == ~Truthy(base) /\ ~Truthy(taught) /\ cached = None
                   /\ ~FetchSkips(userText)
    IN  /\ V6Arrive(u, text)
        /\ V6Mode(u) = "none"
        /\ response \in FetchResponses(userText)
        \* any other call has no outcome to choose
        /\ io.baseLoad \/ loads1
        /\ io.taughtLoad \/ loads2
        /\ io.apiFind \/ finds
        /\ response = None \/ fetches
        /\ io.apiSave \/ (mongoAvailable /\ saves)
        /\ baseDictionaryCache' = b.cache
        /\ lastBaseCacheUpdate' = b.last
        /\ taughtWordsCache' = IF tier = 1 THEN taughtWordsCache ELSE t.cache
        /\ lastCacheUpdate' = IF tier = 1 THEN lastCacheUpdate ELSE t.last
        /\ apiCache' = IF saves /\ ~mongoAvailable
                       THEN Put(apiCache, key, entry) ELSE apiCache
        /\ apiStore' = IF saves /\ mongoAvailable /\ io.apiSave
                       THEN Put(apiStore, key, entry) ELSE apiStore
        /\ userStates' = IF tier = 5
                         THEN [AfterSkip(u, text) EXCEPT ![u] =
                                  LearningState(userText)]
                         ELSE AfterSkip(u, text)
        /\ replies' = [replies EXCEPT ![d] = SkipReplies(text) + 1]
        /\ h' = [h EXCEPT ![<<d, 1>>] =
                   Finished(u, Len(msgs) + 1, userText, None, Some(res),
                            IF tier = 5 THEN "teach" ELSE "found")]
        /\ UNCHANGED <<taughtStore, baseStore>>

\* bot.onText(/^\/correct(?:\s+(.+)|$)/): without a word one usage reply;
\* a word of the taught cache starts mode 'correcting', a word of the base
\* cache mode 'correcting_base', any other word is "not found"; one reply
V6Correct(u, text, io) ==
    LET d == Len(deliveries) + 1
        match == CorrectMatch(text)
        word == Normalize(match[1][1])
        b == CachedBase(io.baseLoad)
        t == CachedTaught(io.taughtLoad)
        base == Get(b.cache, word)
        taught == Get(t.cache, word)
    IN  /\ Len(msgs) < MsgCap
        /\ Len(deliveries) < MaxDeliveries
        /\ match # None /\ ~MatchesSkip(text)
        /\ io.apiFind /\ io.apiSave
        /\ io.baseLoad
           \/ (match[1] # None /\ mongoAvailable /\ BaseCacheStale
               /\ baseStore # <<>>)
        /\ io.taughtLoad
           \/ (match[1] # None /\ mongoAvailable /\ taughtStore # <<>>
               /\ CacheStale(clock, lastCacheUpdate, taughtWordsCache))
        /\ msgs' = Append(msgs, [user |-> u, text |-> text])
        /\ deliveries' = Append(deliveries, Len(msgs) + 1)
        /\ replies' = [replies EXCEPT ![d] = 1]
        /\ h' = [h EXCEPT ![<<d, 3>>] =
                   Finished(u, Len(msgs) + 1, text, userStates[u], None, "none")]
        /\ IF match[1] = None
           THEN UNCHANGED <<userStates, baseDictionaryCache,
                            lastBaseCacheUpdate, taughtWordsCache,
                            lastCacheUpdate>>
           ELSE /\ baseDictionaryCache' = b.cache
                /\ lastBaseCacheUpdate' = b.last
                /\ taughtWordsCache' = t.cache
                /\ lastCacheUpdate' = t.last
                /\ userStates' =
                     IF Truthy(taught)
                     THEN [userStates EXCEPT ![u] = CorrectingState(word, taught)]
                     ELSE IF Truthy(base)
                     THEN [userStates EXCEPT ![u] =
                              CorrectingBaseState(word, base)]
                     ELSE userStates
        /\ UNCHANGED <<conc, cmd, mongoAvailable, clock, ticks, coreStore,
                       baseStore, apiCache, learnedWords, messageProcessing,
                       bodyRuns, confirmedTaught, timers>>

\* bot.onText(/\/skip|\/cancel/) on a command: an active state of any of the
\* three modes is deleted; one reply either way
V6Skip(u, text) ==
    LET d == Len(deliveries) + 1
    IN  /\ Len(msgs) < MsgCap
        /\ Len(deliveries) < MaxDeliveries
        /\ IsCommand(text) /\ MatchesSkip(text) /\ CorrectMatch(text) = None
        /\ msgs' = Append(msgs, [user |-> u, text |-> text])
        /\ deliveries' = Append(deliveries, Len(msgs) + 1)
        /\ userStates' = ClearUserState(userStates, u)
        /\ replies' = [replies EXCEPT ![d] = 1]
        /\ UNCHANGED <<coreEnv, coreStore, coreCache, messageProcessing,
                       bodyRuns, h, confirmedTaught>>

NextV6 ==
    \/ \E u \in Senders, text \in Texts :
          V6Plain(text) /\ \E ok \in BOOLEAN : V6Learn(u, text, ok)
    \/ \E u \in Senders, text \in Texts :
          V6Plain(text) /\ \E ok \in BOOLEAN : V6UpdateBase(u, text, ok)
    \/ \E u \in Senders, text \in Texts :
          /\ V6Plain(text)
          /\ V6Mode(u) = "none"
          /\ \E io \in StoreOutcomes, response \in FetchResponses(Trim(text)) :
                V6Translate(u, text, io, response)
    \/ \E u \in Senders, text \in Texts :
          /\ Len(msgs) < MsgCap
          /\ CorrectMatch(text) # None
          /\ \E io \in StoreOutcomes : V6Correct(u, text, io)
    \/ \E u \in Senders, text \in Texts : V6Skip(u, text)
    \/ \E step \in TickSteps : Tick(step)

SpecV6 == InitV6 /\ [][NextV6]_vars


\* ------------------------------------ the storage functions of v5.2
\* saveToTaughtDictionary, getCachedTaughtWords, saveToAPICache and
\* loadFromAPICache taken one call at a time, as learnNewWord and
\* translateToTulu call them, with the clock running past the life of the
\* taught cache and past the life of an API cache entry.

\* createIndex({createdAt: 1}, {expireAfterSeconds: 7 * 24 * 60 * 60}), minutes
API_CACHE_TTL == 10080

\* writes of one taught word
MaxUsage == 2

\* the key the storage functions are called with: "old"
StoreKeys == {K_old}

\* the first message of the run has refreshed the taught cache (with the
\* store: startBot has loaded it)
InitStore ==
    /\ NoBase
    /\ conc = FALSE
    /\ cmd = FALSE
    /\ mongoAvailable \in BOOLEAN
    /\ taughtStore \in (IF mongoAvailable THEN {<<>>, PreTaught} ELSE {<<>>})
    /\ InitQuiet
    /\ taughtWordsCache = Snapshot(taughtStore)
    /\ lastCacheUpdate = clock
    /\ learnedWords = Snapshot(taughtStore)

\* the latest call of a storage function: the function, its key, the time of
\* the call, the value it wrote or returned (None: nothing written, a miss)
\* and for a read of the API cache the age of the entry it found; ok: no
\* store call of it failed
Called(fn, key, out, age, ok) ==
    [Idle EXCEPT !.pc = "done", !.reply = fn, !.text = key, !.now = clock,
                 !.res = out, !.age = age, !.err = ~ok]

\* saveToTaughtDictionary(englishWord, tuluWord): without the store the cache
\* and learnedWords get the word; with it findOne and replaceOne (ok: both
\* succeed), then the cache gets the word; true, or false on an error
SaveToTaughtDictionary(key, tulu, ok) ==
    LET existing == Get(taughtStore, key)
        count == IF existing # None THEN existing[1].usage_count + 1 ELSE 1
        saved == ~mongoAvailable \/ ok
    IN  /\ ok \/ mongoAvailable
        /\ count <= MaxUsage
        /\ taughtStore' = IF mongoAvailable /\ ok
                          THEN Put(taughtStore, key,
                                   [tulu |-> Trim(tulu), usage_count |-> count])
                          ELSE taughtStore
        /\ taughtWordsCache' = IF saved THEN Put(taughtWordsCache, key, Trim(tulu))
                               ELSE taughtWordsCache
        /\ learnedWords' = IF ~mongoAvailable
                           THEN Put(learnedWords, key, Trim(tulu))
                           ELSE learnedWords
        /\ h' = [h EXCEPT ![<<1, 1>>] =
                   Called("saveToTaughtDictionary", key,
                          IF saved THEN Some(Trim(tulu)) ELSE None, 0, ok)]
        /\ UNCHANGED <<coreEnv, apiStore, lastCacheUpdate, apiCache, userStates,
                       messageProcessing, coreInbox, replies, confirmedTaught>>

\* (await getCachedTaughtWords())[key]: a stale or empty cache is reloaded
\* first (ok: the find succeeds)
GetCachedTaughtWords(key, ok) ==
    LET t == CachedTaught(ok)
    IN  /\ ok \/ (mongoAvailable /\ taughtStore # <<>>
                  /\ CacheStale(clock, lastCacheUpdate, taughtWordsCache))
        /\ taughtWordsCache' = t.cache
        /\ lastCacheUpdate' = t.last
        /\ h' = [h EXCEPT ![<<1, 1>>] =
                   Called("getCachedTaughtWords", key, Get(t.cache, key), 0, ok)]
        /\ UNCHANGED <<coreEnv, coreStore, apiCache, learnedWords, userStates,
                       messageProcessing, coreInbox, replies, confirmedTaught>>

\* saveToAPICache(englishWord, translation): an empty or Kannada-script
\* translation is not written; without the store apiCache[key] gets the entry
\* with createdAt: Date.now(); with it replaceOne (ok: it succeeds; an error
\* is swallowed)
SaveToAPICache(key, translation, ok) ==
    LET entry == [translation |-> Trim(translation), createdAt |-> clock]
        written == CacheAccepts(translation) /\ (~mongoAvailable \/ ok)
    IN  /\ ok \/ (mongoAvailable /\ CacheAccepts(translation))
        /\ apiCache' = IF written /\ ~mongoAvailable
                       THEN Put(apiCache, key, entry) ELSE apiCache
        /\ apiStore' = IF written /\ mongoAvailable
                       THEN Put(apiStore, key, entry) ELSE apiStore
        /\ h' = [h EXCEPT ![<<1, 1>>] =
                   Called("saveToAPICache", key,
                          IF written THEN Some(entry.translation) ELSE None, 0, ok)]
        /\ UNCHANGED <<coreEnv, taughtStore, taughtWordsCache, lastCacheUpdate,
                       learnedWords, userStates, messageProcessing, coreInbox,
                       replies, confirmedTaught>>

\* loadFromAPICache(englishWord): apiCache[key] without the store, else
\* findOne({english: key}) (ok: it succeeds; an error returns null)
LoadFromAPICache(key, ok) ==
    LET table == IF mongoAvailable THEN apiStore ELSE apiCache
        found == IF mongoAvailable /\ ~ok THEN None ELSE ApiLookup(table, key)
    IN  /\ ok \/ (mongoAvailable /\ key \in DOMAIN apiStore)
        /\ h' = [h EXCEPT ![<<1, 1>>] =
                   Called("loadFromAPICache", key, found,
                          IF found # None THEN clock - table[key].createdAt
                          ELSE 0, ok)]
        /\ UNCHANGED <<coreEnv, coreStore, coreCache, userStates,
                       messageProcessing, coreInbox, replies, confirmedTaught>>

\* the TTL index on api_cache.createdAt: some time after a document has
\* passed its expiry the server's background task deletes it
TtlMonitor ==
    LET live == {k \in DOMAIN apiStore :
                    clock - apiStore[k].createdAt <= API_CACHE_TTL}
    IN  /\ mongoAvailable
        /\ live # DOMAIN apiStore
        /\ apiStore' = [k \in live |-> apiStore[k]]
        /\ UNCHANGED <<coreEnv, taughtStore, coreCache, userStates,
                       messageProcessing, coreInbox, h, replies, confirmedTaught>>

NextStore ==
    \/ \E key \in StoreKeys, tulu \in {V_de, V_kur}, ok \in BOOLEAN :
          SaveToTaughtDictionary(key, tulu, ok)
    \/ \E key \in StoreKeys, ok \in BOOLEAN : GetCachedTaughtWords(key, ok)
    \/ \E key \in StoreKeys, ok \in BOOLEAN :
          \E r \in FetchResponses(key) :
             /\ Truthy(TryAPIResult(r))
             /\ SaveToAPICache(key, TryAPIResult(r)[1], ok)
    \/ \E key \in StoreKeys, ok \in BOOLEAN : LoadFromAPICache(key, ok)
    \/ TtlMonitor
    \/ \E step \in {CACHE_DURATION + 1, API_CACHE_TTL + 1} : Tick(step)

SpecStore == InitStore /\ [][NextStore]_vars


\* ------------------------------------ v5.0 (src/cloud-bot.js 2371-3687)
\* v5.0 arms a 10-minute timer when it asks to be taught a word and when it
\* accepts a /correct.  It has no taught cache: every lookup reads the
\* collection.  Its handlers are taken one update at a time, over texts of at
\* most 2 characters, for which tryAPITranslation returns null at once and
\* the API cache holds nothing.

\* "/correct ma"
T_correctMa == P_correct \o <<32>> \o T_ma

\* bot.onText(/\/correct (.+)/): match[1] of the first match, or no match
V5CorrectMatch(text) ==
    LET p == P_correct \o <<32>>
        at == {i \in 1..(Len(text) - Len(p)) : SubSeq(text, i, i + Len(p) - 1) = p}
        first == CHOOSE i \in at : \A j \in at : i <= j
    IN  IF at = {} THEN None
        ELSE Some(SubSeq(text, first + Len(p), Len(text)))

\* the store holds nothing or "ma" taught in an earlier run
InitV5 ==
    /\ NoBase
    /\ conc = FALSE
    /\ cmd = TRUE
    /\ mongoAvailable \in BOOLEAN
    /\ taughtStore \in (IF mongoAvailable
                        THEN {<<>>, (T_ma :> [tulu |-> V_de, usage_count |-> 1])}
                        ELSE {<<>>})
    /\ InitQuiet
    /\ taughtWordsCache = <<>>
    /\ lastCacheUpdate = 0
    /\ learnedWords = Snapshot(taughtStore)

\* the outcomes of the calls of one handler: the reload of learnedWords, the
\* read of the taught collection, the save, the bot.sendMessage
V5Outcomes == [load : BOOLEAN, find : BOOLEAN, save : BOOLEAN, sent : BOOLEAN]

\* a timer callback runs as soon as its time has come
NoDueTimer == \A t \in timers : t.due > clock

\* setTimeout(() => {...}, 10 * 60 * 1000) for the user's request for a word
Armed(u, word, mode) ==
    timers \cup {[user |-> u, word |-> word, mode |-> mode,
                  due |-> clock + STATE_TIMEOUT]}

\* bot.on('message') on a plain text: if (mongoAvailable) learnedWords =
\* await loadFromTaughtDictionary()
V5Arrive(u, text, io) ==
    /\ NoDueTimer
    /\ V6Plain(text)
    /\ ~MatchesSkip(text)
    /\ io.load \/ (mongoAvailable /\ taughtStore # <<>>)
    /\ msgs' = Append(msgs, [user |-> u, text |-> text])
    /\ deliveries' = Append(deliveries, Len(msgs) + 1)
    /\ UNCHANGED <<conc, cmd, mongoAvailable, clock, ticks, coreBase, apiStore,
                   taughtWordsCache, lastCacheUpdate, apiCache,
                   messageProcessing, bodyRuns, confirmedTaught>>

\* learnedWords after the reload
V5Reloaded(io) ==
    IF ~mongoAvailable THEN learnedWords
    ELSE IF io.load THEN Snapshot(taughtStore)
    ELSE <<>>

\* mode 'learning' or 'correcting': learnNewWord(userState.englishWord,
\* userText); on success the word is saved and the state deleted, one reply;
\* on failure one reply and then delete userStates[userId]
V5Learn(u, text, io) ==
    LET d == Len(deliveries) + 1
        st == userStates[u]
        key == Normalize(st[1].englishWord)
        tulu == Trim(text)
        saved == LearnValid(tulu) /\ (~mongoAvailable \/ io.save)
        existing == Get(taughtStore, key)
        doc == [tulu |-> tulu,
                usage_count |-> IF existing # None
                                THEN existing[1].usage_count + 1 ELSE 1]
        reply == IF ~saved THEN "none"
                 ELSE IF st[1].mode = "learning" THEN "taught" ELSE "corrected"
    IN  /\ V5Arrive(u, text, io)
        /\ V6Mode(u) \in {"learning", "correcting"}
        /\ io.find
        /\ io.save \/ (mongoAvailable /\ LearnValid(tulu))
        /\ io.sent \/ ~saved
        /\ taughtStore' = IF saved /\ mongoAvailable
                          THEN Put(taughtStore, key, doc) ELSE taughtStore
        /\ learnedWords' = IF saved THEN Put(V5Reloaded(io), key, tulu)
                           ELSE V5Reloaded(io)
        /\ userStates' = IF saved \/ io.sent THEN ClearUserState(userStates, u)
                         ELSE userStates
        /\ replies' = [replies EXCEPT ![d] = 1]
        /\ h' = [h EXCEPT ![<<d, 1>>] =
                   Finished(u, Len(msgs) + 1, tulu, st, None, reply)]
        /\ timers' = timers

\* no pending state: translateToTulu of v5.0 (tier 2 reads the collection,
\* tiers 3 and 4 give nothing for a short text), one reply, and after the
\* request to teach has been sent the timer is armed
V5Translate(u, text, io) ==
    LET d == Len(deliveries) + 1
        userText == Trim(text)
        key == Normalize(userText)
        base == BaseLookup(key)
        taught == Get(IF mongoAvailable /\ io.find THEN Snapshot(taughtStore)
                      ELSE <<>>, key)
        tier == IF Truthy(base) THEN 1 ELSE IF Truthy(taught) THEN 2 ELSE 5
        res == CASE tier = 1 -> Result(base, TRUE, 1, FALSE)
                 [] tier = 2 -> Result(taught, TRUE, 2, FALSE)
                 [] OTHER -> Result(None, FALSE, 5, FALSE)
    IN  /\ V5Arrive(u, text, io)
        /\ V6Mode(u) = "none"
        \* englishPattern.test(userText), and tryAPITranslation returns null
        /\ \A i \in 1..Len(userText) :
              userText[i] \in (48..57) \cup (65..90) \cup (97..122) \cup {32}
        /\ FetchSkips(userText) /\ ApiLookup(apiStore, key) = None
        /\ io.save
        /\ io.find \/ (mongoAvailable /\ ~Truthy(base) /\ taughtStore # <<>>)
        /\ io.sent \/ tier = 5
        /\ learnedWords' = V5Reloaded(io)
        /\ userStates' = IF tier = 5
                         THEN [userStates EXCEPT ![u] = LearningState(userText)]
                         ELSE userStates
        /\ timers' = IF tier = 5 /\ io.sent
                     THEN Armed(u, ToLowerCase(userText), "learning")
                     ELSE timers
        /\ replies' = [replies EXCEPT ![d] = 1]
        /\ h' = [h EXCEPT ![<<d, 1>>] =
                   Finished(u, Len(msgs) + 1, userText, None, Some(res),
                            IF tier = 5 THEN "teach" ELSE "found")]
        /\ taughtStore' = taughtStore

\* bot.onText(/\/correct (.+)/): the collection is read; a base word is
\* refused, a taught word puts the user in correcting mode and after the
\* reply has been sent the timer is armed, any other word is "not found"
V5Correct(u, text, io) ==
    LET d == Len(deliveries) + 1
        match == V5CorrectMatch(text)
        word == Normalize(match[1])
        base == Get(tuluDictionary, word)
        taught == Get(IF mongoAvailable /\ io.find THEN Snapshot(taughtStore)
                      ELSE <<>>, word)
        accepted == Truthy(taught) /\ ~Truthy(base)
    IN  /\ NoDueTimer
        /\ Len(msgs) < MsgCap
        /\ Len(deliveries) < MaxDeliveries
        /\ match # None /\ ~MatchesSkip(text)
        /\ io.load /\ io.save
        /\ io.find \/ (mongoAvailable /\ taughtStore # <<>>)
        /\ io.sent \/ accepted
        /\ msgs' = Append(msgs, [user |-> u, text |-> text])
        /\ deliveries' = Append(deliveries, Len(msgs) + 1)
        /\ userStates' = IF accepted
                         THEN [userStates EXCEPT ![u] =
                                  CorrectingState(word, taught)]
                         ELSE userStates
        /\ timers' = IF accepted /\ io.sent THEN Armed(u, word, "correcting")
                     ELSE timers
        /\ replies' = [replies EXCEPT ![d] = 1]
        /\ h' = [h EXCEPT ![<<d, 3>>] =
                   Finished(u, Len(msgs) + 1, text, userStates[u], None, "none")]
        /\ UNCHANGED <<conc, cmd, mongoAvailable, clock, ticks, coreBase,
                       coreStore, coreCache, messageProcessing, bodyRuns,
                       confirmedTaught>>

\* the callback of a timer: if (userStates[userId] && [userStates[userId].mode
\* === 'correcting' &&] userStates[userId].englishWord === word) delete
\* userStates[userId], and a message to the chat
V5TimerFires(t) ==
    LET s == userStates[t.user]
        hit == /\ s # None
               /\ s[1].englishWord = t.word
               /\ t.mode = "correcting" => s[1].mode = "correcting"
    IN  /\ t \in timers
        /\ t.due <= clock
        /\ timers' = timers \ {t}
        /\ userStates' = IF hit THEN ClearUserState(userStates, t.user)
                         ELSE userStates
        /\ UNCHANGED <<conc, cmd, mongoAvailable, clock, ticks, coreBase,
                       coreStore, coreCache, messageProcessing, coreInbox, h,
                       replies, confirmedTaught>>

\* Date.now() advances, up to the time of the next timer
V5Tick(step) ==
    /\ NoDueTimer
    /\ ticks < MaxTicks
    /\ clock' = clock + step
    /\ ticks' = ticks + 1
    /\ UNCHANGED <<conc, cmd, mongoAvailable, coreStore, coreCache, userStates,
                   messageProcessing, coreInbox, h, replies, confirmedTaught,
                   coreBase, timers>>

NextV5 ==
    \/ \E u \in Users, text \in {T_ma, V_de} :
          /\ V6Plain(text)
          /\ \E io \in V5Outcomes : V5Learn(u, text, io)
    \/ \E u \in Users, text \in {T_ma, V_de} :
          /\ V6Plain(text)
          /\ \E io \in V5Outcomes : V5Translate(u, text, io)
    \/ \E u \in Users :
          /\ Len(msgs) < MsgCap
          /\ \E io \in V5Outcomes : V5Correct(u, T_correctMa, io)
    \/ \E u \in Users : NoDueTimer /\ V6Skip(u, T_skip)
    \/ \E t \in timers : V5TimerFires(t)
    \/ \E step \in {1, STATE_TIMEOUT - 1} : V5Tick(step)

SpecV5 == InitV5 /\ [][NextV5]_vars

\* ------------------------------------ the v3 variant (cloud-bot.js 1-1028)
\* One dictionary lookup over tuluDictionary and learnedWords, no API and no
\* cache; saveWordToMongoDB answers true whatever the store did; the message
\* handler reloads learnedWords from the store before anything else.

\* startBot of v3: learnedWords = await loadLearnedWordsFromMongoDB(); the
\* learned_words collection holds nothing or "ma" taught in an earlier run
InitV3 ==
    /\ NoBase
    /\ conc = FALSE
    /\ cmd = TRUE
    /\ mongoAvailable \in BOOLEAN
    /\ taughtStore \in (IF mongoAvailable
                        THEN {<<>>, (T_ma :> [tulu |-> V_de])}
                        ELSE {<<>>})
    /\ InitQuiet
    /\ taughtWordsCache = <<>>
    /\ lastCacheUpdate = 0
    /\ learnedWords = Snapshot(taughtStore)

\* mode 'learning' or 'correcting': learnNewWord(userState.englishWord,
\* userText); saveWordToMongoDB returns true without the store, after the
\* replaceOne and after a failed replaceOne alike, so the word is put into
\* learnedWords and the state deleted every time; one reply
V3Learn(u, text, io) ==
    LET d == Len(deliveries) + 1
        st == userStates[u]
        key == Normalize(st[1].englishWord)
        tulu == Trim(text)
        reply == IF st[1].mode = "learning" THEN "taught" ELSE "corrected"
    IN  /\ V5Arrive(u, text, io)
        /\ V6Mode(u) \in {"learning", "correcting"}
        /\ io.find /\ io.sent
        /\ io.save \/ mongoAvailable
        /\ taughtStore' = IF mongoAvailable /\ io.save
                          THEN Put(taughtStore, key, [tulu |-> tulu])
                          ELSE taughtStore
        /\ learnedWords' = Put(V5Reloaded(io), key, tulu)
        /\ userStates' = ClearUserState(userStates, u)
        /\ replies' = [replies EXCEPT ![d] = 1]
        /\ h' = [h EXCEPT ![<<d, 1>>] =
                   Finished(u, Len(msgs) + 1, tulu, st, None, reply)]
        /\ timers' = timers

\* no pending state: translateToTulu of v3 looks the lowered text up in
\* {...tuluDictionary, ...learnedWords} (source 'Community taught' is
\* written as tier 2, 'Base dictionary' as tier 1, 'unknown' as tier 5); an
\* unknown word sets the learning state, and after the request to teach has
\* been sent the timer is armed
V3Translate(u, text, io) ==
    LET d == Len(deliveries) + 1
        userText == Trim(text)
        key == Normalize(userText)
        learned == Get(V5Reloaded(io), key)
        full == IF learned # None THEN learned ELSE BaseLookup(key)
        tier == IF ~Truthy(full) THEN 5 ELSE IF Truthy(learned) THEN 2 ELSE 1
        res == IF tier = 5 THEN Result(None, FALSE, 5, FALSE)
               ELSE Result(full, TRUE, tier, FALSE)
    IN  /\ V5Arrive(u, text, io)
        /\ V6Mode(u) = "none"
        \* englishPattern.test(userText)
        /\ \A i \in 1..Len(userText) :
              userText[i] \in (48..57) \cup (65..90) \cup (97..122) \cup {32}
        /\ io.find /\ io.save
        /\ io.sent \/ tier = 5
        /\ learnedWords' = V5Reloaded(io)
        /\ userStates' = IF tier = 5
                         THEN [userStates EXCEPT ![u] = LearningState(userText)]
                         ELSE userStates
        /\ timers' = IF tier = 5 /\ io.sent
                     THEN Armed(u, ToLowerCase(userText), "learning")
                     ELSE timers
        /\ replies' = [replies EXCEPT ![d] = 1]
        /\ h' = [h EXCEPT ![<<d, 1>>] =
                   Finished(u, Len(msgs) + 1, userText, None, Some(res),
                            IF tier = 5 THEN "teach" ELSE "found")]
        /\ taughtStore' = taughtStore

\* bot.onText(/\/correct (.+)/) of v3: currentWords is the collection read
\* anew with the store and learnedWords without it; a word of currentWords
\* puts the user in correcting mode, a base word is refused, any other word
\* is "not found"; one reply and no timer
V3Correct(u, text, io) ==
    LET d == Len(deliveries) + 1
        match == V5CorrectMatch(text)
        word == Normalize(match[1])
        current == Get(V5Reloaded(io), word)
        full == IF current # None THEN current ELSE BaseLookup(word)
        accepted == Truthy(full) /\ Truthy(current)
    IN  /\ NoDueTimer
        /\ Len(msgs) < MsgCap
        /\ Len(deliveries) < MaxDeliveries
        /\ match # None /\ ~MatchesSkip(text)
        /\ io.find /\ io.save /\ io.sent
        /\ io.load \/ (mongoAvailable /\ taughtStore # <<>>)
        /\ msgs' = Append(msgs, [user |-> u, text |-> text])
        /\ deliveries' = Append(deliveries, Len(msgs) + 1)
        /\ userStates' = IF accepted
                         THEN [userStates EXCEPT ![u] =
                                  CorrectingState(word, current)]
                         ELSE userStates
        /\ replies' = [replies EXCEPT ![d] = 1]
        /\ h' = [h EXCEPT ![<<d, 3>>] =
                   Finished(u, Len(msgs) + 1, text, userStates[u], None, "none")]
        /\ UNCHANGED <<conc, cmd, mongoAvailable, clock, ticks, coreBase,
                       coreStore, coreCache, messageProcessing, bodyRuns,
                       confirmedTaught, timers>>

NextV3 ==
    \/ \E u \in Users, text \in {T_ma, V_de} :
          /\ V6Plain(text)
          /\ \E io \in V5Outcomes : V3Learn(u, text, io)
    \/ \E u \in Users, text \in {T_ma, V_de} :
          /\ V6Plain(text)
          /\ \E io \in V5Outcomes : V3Translate(u, text, io)
    \/ \E u \in Users :
          /\ Len(msgs) < MsgCap
          /\ \E io \in V5Outcomes : V3Correct(u, T_correctMa, io)
    \/ \E u \in Users : NoDueTimer /\ V6Skip(u, T_skip)
    \/ \E t \in timers : V5TimerFires(t)
    \/ \E step \in {1, STATE_TIMEOUT - 1} : V5Tick(step)

SpecV3 == InitV3 /\ [][NextV3]_vars

\* ------------------------ tryAPITranslation of the multi-backend variants
\* v5.0 (cloud-bot.js 2547-2642) tries three translation methods one after
\* the other, src/unnamed/part_003 (177-281) starts all three at once and
\* waits for all of them.  One call at a time; the record of the call is
\* h[<<1, 1>>]: reply the variant, text the argument, cons the methods
\* invoked so far in order, seen the outcome of each method that has settled.

\* what method m returns for a response (None: the fetch threw, response.ok
\* was false, or the 10 s / 5 s timer of Promise.race won): the trimmed text
\* after the method's own quality validation, or null
ApiAccepts(m, text, response) ==
    LET Includes(str, sub) ==
            \E i \in 1..(Len(str) - Len(sub) + 1) :
                SubSeq(str, i, i + Len(sub) - 1) = sub
        body == response[1]
        translation == Trim(body)
        marked1 == \/ Includes(translation, <<117, 110, 100, 101, 102, 105, 110, 101, 100>>)
                   \/ Includes(translation, <<73, 78, 86, 65, 76, 73, 68>>)
                   \/ Includes(translation, <<69, 82, 82, 79, 82>>)
        ok == CASE m = 1 -> /\ Len(translation) > 1
                            /\ translation # ToLowerCase(text)
                            /\ ~marked1
                 [] m = 2 -> /\ translation # text
                             /\ ~Includes(translation, <<73, 78, 86, 65, 76, 73, 68>>)
                 [] OTHER -> /\ Len(translation) > 1
                             /\ translation # ToLowerCase(text)
    IN  IF response = None \/ body = <<>> THEN None
        ELSE IF ok THEN Some(translation) ELSE None

\* the result of the call from the outcomes of its methods: the first
\* method in index order that returned a result, or null
ApiPickMut(seen) == None

ApiPick(seen) ==
    LET got == {m \in DOMAIN seen : seen[m] # None}
    IN  IF got = {} THEN None
        ELSE seen[CHOOSE m \in got : \A n \in got : m <= n]

\* no handler runs; the state is that of v5.0 after startBot without the store
InitApi == InitV5 /\ ~mongoAvailable

\* tryAPITranslation(text): null at once for a short or numeric text;
\* otherwise the first method is invoked (sequential) or all three (parallel)
ApiCall(text, variant) ==
    /\ h[<<1, 1>>].pc \in {"idle", "done"}
    /\ h' = [h EXCEPT ![<<1, 1>>] =
               IF FetchSkips(text)
               THEN [Idle EXCEPT !.pc = "done", !.text = text, !.reply = variant]
               ELSE [Idle EXCEPT !.pc = "api", !.text = text, !.reply = variant,
                        !.cons = IF variant = "parallel" THEN <<1, 2, 3>>
                                 ELSE <<1>>]]
    /\ UNCHANGED <<coreEnv, coreStore, coreCache, userStates,
                   messageProcessing, coreInbox, replies, confirmedTaught>>

\* an invoked method settles.  Sequential: a result is returned at once, a
\* failure moves on to the next method, and after the third the call returns
\* null.  Parallel: Promise.allSettled waits for all three and the results
\* are scanned in index order.
ApiSettle(m, response) ==
    LET call == h[<<1, 1>>]
        seen == Put(call.seen, m, ApiAccepts(m, call.text, response))
        last == IF call.reply = "parallel" THEN DOMAIN seen = {1, 2, 3}
                ELSE seen[m] # None \/ m = 3
    IN  /\ call.pc = "api"
        /\ \E i \in 1..Len(call.cons) : call.cons[i] = m
        /\ m \notin DOMAIN call.seen
        /\ h' = [h EXCEPT ![<<1, 1>>] =
                   IF last
                   THEN [call EXCEPT !.pc = "done", !.seen = seen,
                                     !.res = ApiPick(seen)]
                   ELSE [call EXCEPT !.seen = seen,
                            !.cons = IF call.reply = "parallel" THEN @
                                     ELSE Append(@, m + 1)]]
    /\ UNCHANGED <<coreEnv, coreStore, coreCache, userStates,
                   messageProcessing, coreInbox, replies, confirmedTaught>>

NextApi ==
    \/ \E text \in {T_abc, T_Abc, T_ma, T_123},
          variant \in {"sequential", "parallel"} : ApiCall(text, variant)
    \/ \E m \in 1..3 :
          \E response \in FetchResponses(h[<<1, 1>>].text)
                             \cup {Some(<<69, 82, 82, 79, 82>>)} :
              ApiSettle(m, response)

SpecApi == InitApi /\ [][NextApi]_vars


\* ------------------------------------------------------------------- claims
Deliveries == 1..MaxDeliveries

\* the handler invocations that hold a result of translateToTulu
Resolved == {id \in HandlerIds : h[id].res # None}

KeyOf(id) == Normalize(h[id].text)

\* C1: every result of a translateToTulu call that met no store error comes
\* from the lowest-numbered tier that holds the normalized key: the tiers
\* were consulted in order 1, 2, ... up to the tier of the result and no
\* further, every earlier tier did not hold the key, the tier of a found
\* result did, and tryAPITranslation was not invoked when tier 1, 2 or 3
\* gave the result.
C1_TierOrder ==
    \A id \in Resolved :
        LET t == h[id].res[1].tier IN
        ~h[id].err =>
        /\ h[id].cons = [i \in 1..t |-> i]
        /\ \A i \in 1..(t - 1) : i \notin h[id].held
        /\ t <= 4 => t \in h[id].held
        /\ t <= 3 => ~h[id].net

\* the same for the inputs that are no inherited property name
C1_TierOrderOwnKeys ==
    \A id \in Resolved :
        LET t == h[id].res[1].tier IN
        KeyOf(id) \notin InheritedKeys /\ ~h[id].err =>
            /\ h[id].cons = [i \in 1..t |-> i]
            /\ \A i \in 1..(t - 1) : i \notin h[id].held
            /\ t <= 4 => t \in h[id].held
            /\ t <= 3 => ~h[id].net

\* C2: at most one bot.sendMessage reply is made for a delivery of a
\* plain-text message, and the second listener never runs its body: it finds
\* the message id in messageProcessing and returns.
C2_AtMostOneReply ==
    \A d \in Deliveries :
        /\ replies[d] <= 1
        /\ h[<<d, 2>>].pc \in {"idle", "dropped"}

\* a delivery was processed and answered once while the second listener
\* returned at its duplicate check
C2_Witness ==
    \E d \in Deliveries :
        /\ replies[d] = 1
        /\ h[<<d, 1>>].pc = "done"
        /\ h[<<d, 2>>].pc = "dropped"

\* C3: every delivery whose handler body has run to its end got exactly one
\* reply, also when the supplied translation failed validation or the save
\* failed.
C3_ExactlyOneReply ==
    \A d \in Deliveries : h[<<d, 1>>].pc = "done" => replies[d] = 1

\* C4: when the user's answer to a teaching request is accepted the taught
\* entry exists and the user's state is deleted, and every translateToTulu
\* call that starts after a word was taught, and meets no store error,
\* returns it at tier 2 with the taught value.
C4_TeachRoundTrip ==
    /\ \A id \in HandlerIds :
           h[id].pc = "reply" /\ h[id].reply = "taught" =>
               /\ userStates[h[id].user] = None
               /\ Get(taughtWordsCache, Normalize(h[id].st[1].englishWord))
                      = Some(Trim(h[id].text))
    /\ \A id \in Resolved :
           KeyOf(id) \in DOMAIN h[id].seen /\ ~h[id].err =>
               /\ h[id].res[1].tier = 2
               /\ h[id].res[1].translation = Some(h[id].seen[KeyOf(id)])

\* what the next getCachedTaughtWords lookup of key k would return: the
\* reloaded collection when the cache is stale or empty, else the cache
NextLookup(k) ==
    IF CacheStale(clock, lastCacheUpdate, taughtWordsCache)
    THEN IF mongoAvailable THEN Get(Snapshot(taughtStore), k) ELSE Get(<<>>, k)
    ELSE Get(taughtWordsCache, k)

\* C5: with the store available, in every state the next lookup of a word
\* whose save has succeeded sees the saved value.
C5_WriteThrough ==
    mongoAvailable =>
        \A k \in DOMAIN confirmedTaught : NextLookup(k) = Some(confirmedTaught[k])

\* C6: with the store unavailable, every translateToTulu call that starts
\* after a word was taught returns it at tier 2 with the latest taught value.
C6_MemoryTaughtStays ==
    ~mongoAvailable =>
        \A id \in Resolved :
            KeyOf(id) \in DOMAIN h[id].seen =>
                /\ h[id].res[1].tier = 2
                /\ h[id].res[1].translation = Some(h[id].seen[KeyOf(id)])

\* C7: a message is saved to the taught table as the answer to a learning or
\* correcting request only if the request is at most 10 minutes old when the
\* message arrives.
C7_ExpiredStateNotConsumed ==
    \A id \in HandlerIds :
        h[id].pc = "reply" /\ h[id].reply \in {"taught", "corrected"} =>
            h[id].age <= STATE_TIMEOUT

\* C8 as stated: the handler body runs at most once for a message id, also
\* for a delivery that arrives after the first one has finished.
C8_NeverDoubleProcessed ==
    \A m \in 1..Len(msgs) : bodyRuns[m] <= 1

\* C8 as amended: at any time at most one handler body is running for a
\* message id, and a running body's message id is in messageProcessing (so
\* a delivery arriving meanwhile is dropped).
C8_OneBodyAtATime ==
    \A m \in 1..Len(msgs) :
        LET running == {id \in InFlight : h[id].msg = m} IN
        /\ Cardinality(running) <= 1
        /\ running # {} => MessageId(msgs, m) \in messageProcessing

\* a delivery was dropped by both listeners while the body of an earlier
\* delivery of the same message was still running
C8_Witness ==
    \E d \in Deliveries, e \in Deliveries :
        /\ e < d
        /\ h[<<d, 1>>].pc = "dropped" /\ h[<<d, 2>>].pc = "dropped"
        /\ <<e, 1>> \in InFlight
        /\ deliveries[d] = deliveries[e]

\* C9: no tier-4 result carries a translation with Kannada-range characters,
\* and no such translation is in the API cache.
C9_NoKannadaResult ==
    /\ \A id \in Resolved :
           h[id].res[1].tier = 4 => ~HasKannada(h[id].res[1].translation[1])
    /\ \A k \in DOMAIN apiStore : ~HasKannada(apiStore[k].translation)
    /\ \A k \in DOMAIN apiCache : ~HasKannada(apiCache[k].translation)

\* an API cache entry that must never be written
BadEntry(table, k) ==
    \/ table[k].translation = <<>>
    \/ table[k].translation = k
    \/ HasKannada(table[k].translation)

\* C10: the API cache, durable or in memory, holds no entry whose translation
\* is empty, equals its English key, or has Kannada-range characters.
C10_ApiCacheClean ==
    /\ \A k \in DOMAIN apiStore : ~BadEntry(apiStore, k)
    /\ \A k \in DOMAIN apiCache : ~BadEntry(apiCache, k)


\* loadFromAPICache(key) as the next translateToTulu call would see it
ApiLookupNow(key) ==
    IF mongoAvailable THEN ApiLookup(apiStore, key) ELSE ApiLookup(apiCache, key)

\* C11: when translateToTulu returns a tier-4 success for a key, having met
\* no store error, the API cache holds the returned translation for the key,
\* so that the next call finds it at tier 3 without a fetch.
C11_FetchedIsCached ==
    \A id \in Resolved :
        h[id].res[1].tier = 4 /\ ~h[id].err =>
            ApiLookupNow(KeyOf(id)) = h[id].res[1].translation


\* C12: the needsVerification flag of every result is true exactly when the
\* result comes from tier 3 (API cache) or tier 4 (fresh fetch).
C12_VerifyFlag ==
    \A id \in Resolved :
        h[id].res[1].needsVerification <=> h[id].res[1].tier \in {3, 4}

\* C13: every translateToTulu call that found the key in no table it
\* consulted and got no accepted fetch result returns found=false, tier 5,
\* translation null, and at its return the caller's state is a fresh
\* learning state for the normalized input.
C13_TeachingRequired ==
    \A id \in Resolved :
        h[id].held = {} =>
            /\ h[id].res[1] = Result(None, FALSE, 5, FALSE)
            /\ h[id].pc = "reply" =>
                   userStates[h[id].user] =
                       Some([mode |-> "learning", englishWord |-> KeyOf(id),
                             originalText |-> h[id].text,
                             oldTranslation |-> None, timestamp |-> clock])

\* C14: every translateToTulu call on a key of the base lexicon returns
\* found=true, tier 1 and the seeded translation, whatever was taught,
\* corrected or cancelled before.
C14_BaseAlwaysTier1 ==
    \A id \in Resolved :
        KeyOf(id) \in DOMAIN tuluDictionary =>
            h[id].res[1] = Result(Some(tuluDictionary[KeyOf(id)]), TRUE, 1, FALSE)

\* a base key was resolved at tier 1 after a word had been taught
C14_Witness ==
    \E id \in Resolved :
        /\ KeyOf(id) = K_sit
        /\ h[id].res[1].tier = 1
        /\ confirmedTaught # <<>>

\* the listener run of the latest update, in a run that handles one update
\* at a time
Latest == h[<<Len(deliveries), 1>>]

\* C15: once a contribution has been accepted, in learning, correcting or
\* correcting_base mode, the contributor has no pending state left.
C15_StateDeletedAfterAccept ==
    (deliveries # <<>> /\ Latest.reply \in {"taught", "corrected", "based"})
        => userStates[Latest.user] = None

\* C16: a contribution whose trimmed text is shorter than 2 characters writes
\* nothing, whatever the mode of the pending state: the taught table, the base
\* dictionary and the caches stay as they were.
C16_ShortRejectedNoWrite ==
    [][(/\ Len(msgs') = Len(msgs) + 1
        /\ ~IsCommand(msgs'[Len(msgs')].text)
        /\ userStates[msgs'[Len(msgs')].user] # None
        /\ ~LearnValid(Trim(msgs'[Len(msgs')].text)))
          => UNCHANGED <<taughtStore, baseStore, taughtWordsCache,
                         baseDictionaryCache, apiStore, apiCache,
                         learnedWords>>]_vars

\* the taught table: the taught_dictionary collection, or without the store
\* the in-process taughtWordsCache
TaughtTable == IF mongoAvailable THEN Snapshot(taughtStore) ELSE taughtWordsCache

\* C17: a /correct command changes userStates only by putting its sender in
\* correcting mode for a word that is in the taught table and not in the base
\* dictionary, with the word and its current translation; for any other word
\* userStates stays as it was when the command arrived; the command gets
\* exactly one reply.
C17_CorrectOnlyTaught ==
    [][/\ (/\ Len(msgs') = Len(msgs) + 1
           /\ CorrectMatch(msgs'[Len(msgs')].text) # None)
             => userStates' = userStates
       /\ \A d \in Deliveries :
             (h[<<d, 3>>].pc = "decide" /\ h'[<<d, 3>>].pc = "done") =>
                LET u == h[<<d, 3>>].user
                    word == Normalize(CorrectMatch(h[<<d, 3>>].text)[1][1])
                    eligible == /\ word \in DOMAIN TaughtTable
                                /\ word \notin DOMAIN tuluDictionary
                IN  /\ replies'[d] = 1
                    /\ userStates' # userStates =>
                          /\ eligible
                          /\ userStates' = [userStates EXCEPT ![u] =
                                CorrectingState(word, Some(TaughtTable[word]))]
      ]_vars

\* C18: a word that was taught before the run ("old") is written in the run
\* only by correcting it, which is its second write.  The write leaves the
\* one entry of the key with the new text and usage_count one higher, and
\* from then on the next lookup of the key returns the new text.
C18_SecondWriteWins ==
    [][\A k \in DOMAIN PreTaught :
         LET written == /\ k \in DOMAIN confirmedTaught'
                        /\ \/ k \notin DOMAIN confirmedTaught
                           \/ confirmedTaught'[k] # confirmedTaught[k]
         IN  /\ (mongoAvailable /\ written) =>
                   taughtStore'[k] =
                      [tulu |-> confirmedTaught'[k],
                       usage_count |-> taughtStore[k].usage_count + 1]
             /\ k \in DOMAIN confirmedTaught' =>
                   NextLookup(k)' = Some(confirmedTaught'[k])
      ]_vars

C20_OneWholeState ==
    \A u \in Users :
        \/ userStates[u] = None
        \/ LET s == userStates[u][1]
           IN  /\ s.mode \in {"learning", "correcting", "correcting_base"}
               /\ s.mode = "learning" =>
                     /\ s.oldTranslation = None
                     /\ s.englishWord = Normalize(s.originalText)
               /\ s.mode # "learning" =>
                     /\ s.oldTranslation # None
                     /\ s.originalText = s.englishWord

\* without the store "old" was taught; "ma" was not translated (a learning
\* state for "ma"), then /correct old put the correcting state in its place
C20_Witness ==
    /\ ~mongoAvailable /\ ticks = 0
    /\ Len(msgs) = 2
    /\ msgs[1].text = T_ma /\ msgs[2].text = T_correctOld
    /\ userStates[1] = CorrectingState(K_old, Some(V_de))

\* the latest call of a storage function
LastCall == h[<<1, 1>>]

\* C21: loadFromAPICache never returns an entry that is older than the 7-day
\* expiry window, with the store or without it, purged or not.
C21_NoExpiredApiEntry ==
    (LastCall.reply = "loadFromAPICache" /\ LastCall.res # None)
        => LastCall.age <= API_CACHE_TTL

\* C22: a translateToTulu call on a text of at most 2 characters or of digits
\* only makes no network call and never returns a tier-4 result; when tiers
\* 1-3 miss it passes tier 4 without a fetch and ends at tier 5.
C22_ShortOrNumericSkipsFetch ==
    \A id \in HandlerIds :
        (Len(h[id].text) <= 2 \/ IsNumeric(h[id].text)) =>
            /\ ~h[id].net
            /\ h[id].pc # "fetch"
            /\ h[id].res # None =>
                   /\ h[id].res[1].tier # 4
                   /\ h[id].res[1].tier = 5 => h[id].cons = <<1, 2, 3, 4, 5>>

\* "123" missed tiers 1-3 and ended at tier 5 without a fetch
C22_Witness ==
    \E id \in Resolved :
        /\ h[id].text = T_123
        /\ h[id].res[1].tier = 5
        /\ ~h[id].net

\* a result as translateToTulu returns it after consulting the tiers in
\* order: found with a text from tier 1-4 (from tier 4 a text that passed the
\* validation of the fetched response), or not found at tier 5
WellFormed(id) ==
    LET r == h[id].res[1]
    IN  /\ h[id].cons = [i \in 1..r.tier |-> i]
        /\ r.found <=> r.tier \in 1..4
        /\ r.found <=> Truthy(r.translation)
        /\ r.tier = 4 =>
              /\ h[id].net
              /\ Len(r.translation[1]) > 1
              /\ r.translation[1] = Trim(r.translation[1])

\* C23: every translateToTulu call returns a result, whatever fails on the
\* way: a failed read of the taught table or of the API cache, a fetch that
\* times out, is refused or throws, a fetched text that is rejected and a
\* failed write of the API cache each count as a miss of their tier, the
\* next tier is consulted, and the call ends at tier 5 when nothing hits.
C23_AlwaysAResult ==
    /\ [](\A id \in Resolved : WellFormed(id))
    /\ \A d \in 1..MaxLiveDeliveries : \A l \in {1, 2} :
          (h[<<d, l>>].pc = "tier1") ~> (h[<<d, l>>].res # None)

\* a call met a failed store read and a failed or rejected fetch and ended
\* at tier 5
C23_Witness ==
    \E id \in Resolved :
        /\ h[id].err
        /\ h[id].net
        /\ h[id].res[1] = Result(None, FALSE, 5, FALSE)

\* the step is a call of the function read, without a store error, that
\* follows at once (no other call, no time in between) an accepted call of
\* the function write for the same key
ReadAfterWrite(write, read) ==
    /\ LastCall.reply = write
    /\ LastCall.res # None
    /\ LastCall'.reply = read
    /\ LastCall'.text = LastCall.text
    /\ LastCall'.now = LastCall.now
    /\ ~LastCall'.err

\* C24: a read that follows an accepted write of the same key at once
\* returns the written value: getCachedTaughtWords after
\* saveToTaughtDictionary and loadFromAPICache after saveToAPICache, with the
\* store and without it.
C24_StoreRoundTrip ==
    [][/\ ReadAfterWrite("saveToTaughtDictionary", "getCachedTaughtWords")
            => LastCall'.res = LastCall.res
       /\ ReadAfterWrite("saveToAPICache", "loadFromAPICache")
            => LastCall'.res = LastCall.res
      ]_vars

\* the users on whose behalf a step acts: the sender of the message or
\* command that arrives or is delivered again, the sender of the message
\* whose handler takes the step, the user whose timer runs
Actors ==
    {msgs'[m].user : m \in (Len(msgs) + 1)..Len(msgs')}
    \cup {msgs'[deliveries'[d]].user :
             d \in (Len(deliveries) + 1)..Len(deliveries')}
    \cup {h[id].user : id \in {i \in HandlerIds :
                                  h[i].pc # "idle" /\ h'[i] # h[i]}}
    \cup {t.user : t \in timers \ timers'}

\* C25: a step taken on behalf of one user (a message, a command, a step of
\* a handler, an expiry timer) leaves the UserState of every other user as it
\* was.
C25_OtherUsersUntouched ==
    [][\A b \in Users : userStates'[b] # userStates[b] => b \in Actors]_vars

\* both users asked for "ma" and sent nothing else; the timer of user 1 has
\* run and deleted his state, user 2 still has hers and her timer is pending
C25_Witness ==
    /\ Len(msgs) = 2
    /\ msgs[1] = [user |-> 1, text |-> T_ma]
    /\ msgs[2] = [user |-> 2, text |-> T_ma]
    /\ userStates[1] = None
    /\ userStates[2] # None
    /\ timers # {} /\ \A t \in timers : t.user = 2 /\ t.due > clock
    /\ h[<<1, 1>>].reply = "teach"

\* C28: a timer deletes a UserState only when that state is at least 10
\* minutes old; a timer armed for an earlier request never deletes a newer
\* state of its user.
C28_TimerDeletesOnlyOldState ==
    [][\A t \in timers \ timers' :
          userStates'[t.user] # userStates[t.user] =>
             clock - userStates[t.user][1].timestamp >= STATE_TIMEOUT]_vars

\* the handler has taken its message as the answer to a pending request and
\* the answer has been written to the taught table
Answered(id) ==
    /\ h[id].pc \in {"reply", "sending"}
    /\ h[id].reply \in {"taught", "corrected"}

\* the handler is inside translateToTulu
Resolving(id) ==
    h[id].pc \in {"tier1", "load", "loaded", "tier2", "apiFind", "tier4",
                  "fetch", "apiSave"}

\* C26: of two distinct messages of one user whose handlers are in flight
\* together, at most one is written to the taught table as the answer to the
\* same pending request, and at most one is inside translateToTulu.
C26_OneConsumerPerState ==
    \A i \in HandlerIds, j \in HandlerIds :
        (i # j /\ h[i].user = h[j].user /\ h[i].msg # h[j].msg) =>
            /\ ~(Answered(i) /\ Answered(j) /\ h[i].st = h[j].st)
            /\ ~(Resolving(i) /\ Resolving(j))

\* C27: in a v6.0 process started on an empty base_dictionary collection, or
\* without the store, every translateToTulu call on a seed key of the base
\* dictionary is answered at tier 1 (no action of the bot adds a document to
\* base_dictionary or removes one, so the collection is empty in a state
\* exactly when it was empty at the start).
C27_SeedKeysAtTier1 ==
    \A id \in Resolved :
        (baseStore = <<>> /\ KeyOf(id) \in DOMAIN BaseSeed) =>
            h[id].res[1].found /\ h[id].res[1].tier = 1

\* the translateToTulu calls of v3 on a key after the bot confirmed a
\* translation of it: d1 is the delivery that taught or corrected the key,
\* d2 a later lookup of it with no teaching or correction of it in between
ConfirmedThenAsked(d1, d2) ==
    LET taught(d) == /\ h[<<d, 1>>].reply \in {"taught", "corrected"}
                     /\ h[<<d, 1>>].st # None
                     /\ h[<<d, 1>>].st[1].englishWord = KeyOf(<<d2, 1>>)
    IN  /\ d1 < d2 /\ d2 <= Len(deliveries)
        /\ taught(d1)
        /\ h[<<d2, 1>>].res # None
        /\ \A d \in (d1 + 1)..(d2 - 1) : ~taught(d)

\* C29: in v3, once learnNewWord returned true for a key, every later
\* translateToTulu of that key is found with the translation taught last.
C29_ConfirmedWordStaysFound ==
    \A d1, d2 \in 1..MaxDeliveries :
        ConfirmedThenAsked(d1, d2) =>
            /\ h[<<d2, 1>>].res[1].found
            /\ h[<<d2, 1>>].res[1].translation = Some(h[<<d1, 1>>].text)

\* the /correct callback id is about to decide on a word that the API cache
\* holds and the base dictionary does not: the word was answered at tier 4
\* when it was cached, and translateToTulu would answer it at tier 3 unless
\* it has been taught as well
DecidesOnFetched(id) ==
    /\ h[id].pc = "decide"
    /\ LET word == Normalize(CorrectMatch(h[id].text)[1][1])
       IN  /\ ~Truthy(Get(tuluDictionary, word))
           /\ ApiLookupNow(word) # None

\* C30: /correct on a word that translateToTulu reports at tier 3 or 4 puts
\* the user into the correcting state for that word.
C30_FetchedWordCorrectable ==
    [][\A id \in HandlerIds :
          (DecidesOnFetched(id) /\ h'[id].pc = "done") =>
              LET s == userStates'[h[id].user]
              IN  /\ s # None
                  /\ s[1].mode = "correcting"
                  /\ s[1].englishWord =
                        Normalize(CorrectMatch(h[id].text)[1][1])]_vars

\* C31: with the store available, getCachedTaughtWords as translateToTulu
\* calls it starts a reload exactly when the snapshot is empty or more than
\* CACHE_DURATION has passed since lastCacheUpdate; otherwise it hands over
\* the cached snapshot untouched, which is then at most CACHE_DURATION old;
\* after a reload the snapshot handed over is the one this call read, stamped
\* with the time the call began.
C31_ReloadExactlyWhenStale ==
    [][\A id \in HandlerIds :
          LET old == clock - lastCacheUpdate > CACHE_DURATION
              empty == DOMAIN taughtWordsCache = {}
          IN  /\ (/\ mongoAvailable
                  /\ h[id].pc = "tier1"
                  /\ h'[id].pc \in {"load", "tier2"}) =>
                    /\ h'[id].pc = "load" <=> (old \/ empty)
                    /\ h'[id].pc = "tier2" =>
                          /\ taughtWordsCache' = taughtWordsCache
                          /\ lastCacheUpdate' = lastCacheUpdate
                          /\ clock - lastCacheUpdate' <= CACHE_DURATION
              /\ (h[id].pc = "loaded" /\ h'[id].pc = "tier2") =>
                    /\ taughtWordsCache' = h[id].snap
                    /\ lastCacheUpdate' = h[id].now]_vars

\* a translateToTulu call is about to use a non-empty snapshot reloaded
\* after the clock had passed the cache's life
C31_Witness ==
    \E id \in HandlerIds :
        /\ mongoAvailable
        /\ h[id].pc = "tier2"
        /\ ticks > 0
        /\ taughtWordsCache # <<>>
        /\ lastCacheUpdate > StartClock

\* C32: with the store available every successful saveToTaughtDictionary
\* adds exactly one to the stored usage_count of its key (1 on the key's
\* first save), so that after n successful saves the count is n.
C32_NoLostIncrement ==
    [][\A id \in HandlerIds :
          (h[id].pc = "replaceOne" /\ h'[id].pc = "reply") =>
              LET key == Normalize(h[id].st[1].englishWord)
              IN  taughtStore'[key].usage_count =
                     IF key \in DOMAIN taughtStore
                     THEN taughtStore[key].usage_count + 1 ELSE 1]_vars

\* C33: a translateToTulu call on a text has an outcome that the call on the
\* normalized form of the text has in the same state: the Fetcher is asked
\* or skipped alike, and a tier-4 translation is one that the Fetcher's
\* answer to the normalized form yields.
C33_OutcomeOfNormalizedForm ==
    \A id \in Resolved :
        LET r == h[id].res[1]
        IN  /\ h[id].net <=>
                  /\ \E i \in 1..Len(h[id].cons) : h[id].cons[i] = 4
                  /\ ~FetchSkips(KeyOf(id))
            /\ r.tier = 4 =>
                  \E response \in FetchResponses(KeyOf(id)) :
                      TryAPIResult(response) = r.translation

\* the call of tryAPITranslation that has returned
ApiReturned == h[<<1, 1>>].pc = "done" /\ h[<<1, 1>>].reply \in {"sequential", "parallel"}

\* no backend is invoked twice, and a result is the accepted result of a
\* backend that was invoked
ApiOncePerBackend ==
    LET call == h[<<1, 1>>]
    IN  /\ \A i, j \in 1..Len(call.cons) : call.cons[i] = call.cons[j] => i = j
        /\ call.res # None =>
              \E i \in 1..Len(call.cons) :
                  /\ call.cons[i] \in DOMAIN call.seen
                  /\ call.seen[call.cons[i]] = call.res

\* every backend was invoked and none gave an accepted result
ApiAllFailed ==
    LET call == h[<<1, 1>>]
    IN  /\ {call.cons[i] : i \in 1..Len(call.cons)} = {1, 2, 3}
        /\ \A m \in 1..3 : m \in DOMAIN call.seen /\ call.seen[m] = None

\* C34 as stated: each backend at most once, and null exactly when every
\* backend failed, timed out or was rejected.
C34_NullOnlyWhenAllFailed ==
    ApiReturned =>
        /\ ApiOncePerBackend
        /\ h[<<1, 1>>].res = None <=> ApiAllFailed

\* C34 amended: each backend at most once, and null exactly when the text is
\* short or numeric (no backend is invoked) or every backend failed, timed
\* out or was rejected.
C34_NullWhenSkippedOrAllFailed ==
    ApiReturned =>
        /\ ApiOncePerBackend
        /\ h[<<1, 1>>].res = None <=>
              \/ FetchSkips(h[<<1, 1>>].text) /\ h[<<1, 1>>].cons = <<>>
              \/ ApiAllFailed

\* a sequential call whose first two backends failed returned the result of
\* the third
C34_Witness ==
    /\ ApiReturned
    /\ h[<<1, 1>>].reply = "sequential"
    /\ h[<<1, 1>>].cons = <<1, 2, 3>>
    /\ h[<<1, 1>>].res # None

\* C35: no key of the static base dictionary is ever a key of the taught
\* collection, of the taught cache or of learnedWords.
C35_NoBaseKeyTaught ==
    /\ DOMAIN taughtStore \cap DOMAIN tuluDictionary = {}
    /\ DOMAIN taughtWordsCache \cap DOMAIN tuluDictionary = {}
    /\ DOMAIN learnedWords \cap DOMAIN tuluDictionary = {}

\* a word has been taught in this run, and then /correct on the base word
\* "sit" has been answered
C35_Witness ==
    /\ Len(msgs) = 3
    /\ msgs[3].text = T_correctSit
    /\ h[<<3, 3>>].pc = "done"
    /\ DOMAIN learnedWords \ DOMAIN PreTaught # {}

\* no handler body is in flight
Quiescent == \A id \in HandlerIds : h[id].pc \in {"idle", "done", "dropped"}

\* C36: when no handler is in flight messageProcessing is empty, and every
\* message id in messageProcessing is eventually removed from it.
C36_ProcessingSetDrains ==
    /\ [](Quiescent => messageProcessing = {})
    /\ \A u \in Users : \A m \in 1..(MaxMsgs + 1) :
          (<<u, m>> \in messageProcessing) ~> (<<u, m>> \notin messageProcessing)

\* two deliveries have been handled to the end, one of them through the
\* branch that answers a teaching request, and the set is empty again
C36_Witness ==
    /\ Quiescent
    /\ Len(deliveries) = 2
    /\ h[<<1, 1>>].pc = "done"
    /\ h[<<2, 1>>].pc = "done"
    /\ learnedWords # Snapshot(taughtStore) \/ DOMAIN learnedWords \ DOMAIN PreTaught # {}
    /\ messageProcessing = {}

====
